---- MODULE Spec2Model ----
(***************************************************************************)
(* phitodo: the task entities, the mutation service, the view filters and  *)
(* the SQLite snapshot repository, modelled from the Python sources.       *)
(*                                                                         *)
(* Python values are modelled as follows.  str is a TLA+ string; the       *)
(* characters of the strings that are sliced or compared are given by      *)
(* Chars.  None is the string NoneVal.  A str-Enum member is the string of *)
(* its value (TaskStatus.INBOX == "inbox" holds in Python).  A dict is a   *)
(* function from key strings to values; a list is a sequence.              *)
(***************************************************************************)
EXTENDS Integers, Sequences, FiniteSets, TLC

VARIABLES
    tasks,      \* AppState.tasks: the task dict, as the sequence of its values in insertion order
    clock,      \* the last instant returned by datetime.now()
    nops,       \* number of mutation-service operations performed
    input,      \* the task list handed to the view functions
    views,      \* the outputs of the view functions for input
    projects,   \* AppState.projects: the project dict, as the sequence of its values
    tags,       \* AppState.tags: the tag dict, as the sequence of its values
    call,       \* the last call of a service function: its arguments and what it returned
    disk,       \* the database file: what has been committed
    conn,       \* the database as the repository's connection sees it (with uncommitted writes)
    last_saved, \* the last call of save_snapshot: its argument and the exception it raised
    loaded,     \* the last load since then: the operation, its exception and its result
    saves,      \* the save_snapshot coroutines in flight: next statement and argument
    github,     \* AppState.github_assigned_issues .. github_error
    toggl,      \* AppState.toggl_entries, toggl_loading, toggl_error
    nav,        \* AppState.current_view, viewing_project_id, viewing_tag_id, search_query
    fetches,    \* the _fetch_github_data / _fetch_toggl_data coroutines in flight
    requests,   \* the number of fetches each remote service has been asked for
    modal       \* the modal screen on top of the screen stack and its input

\* ------------------------------------------------------------------------
\* Bounds
\* ------------------------------------------------------------------------
MaxClock == 3
MaxOps == 3

\* ------------------------------------------------------------------------
\* Python values
\* ------------------------------------------------------------------------
NoneVal == "<None>"

\* bool(x) for an Optional[str]
Truthy(x) == x # NoneVal /\ x # ""

\* dict.get(key, default)
Get(data, key, default) == IF key \in DOMAIN data THEN data[key] ELSE default

Range(s) == {s[i] : i \in DOMAIN s}

Min2(a, b) == IF a <= b THEN a ELSE b

\* the dates and instants that occur as values
TwoDaysAgo == "2026-11-01"
Yesterday == "2026-11-02"
Today == "2026-11-03"
TodayNoon == "2026-11-03T12"
Tomorrow == "2026-11-04"
MaxDate == "9999-99-99"
Instants ==
    << "2026-11-03T10:00:00", "2026-11-03T10:00:01", "2026-11-03T10:00:02",
       "2026-11-03T10:00:03", "2026-11-03T10:00:04", "2026-11-03T10:00:05",
       "2026-11-03T10:00:06" >>

\* the characters (code points) of a string
Chars(s) ==
    CASE s = "" -> <<>>
      [] s = "a" -> <<97>>
      [] s = "b" -> <<98>>
      [] s = "Ab" -> <<65, 98>>
      [] s = "xa" -> <<120, 97>>
      [] s = "ab" -> <<97, 98>>
      [] s = "XA" -> <<88, 65>>
      [] s = "  " -> <<32, 32>>
      [] s = " b " -> <<32, 98, 32>>
      [] s = "2026-11-01" -> <<50, 48, 50, 54, 45, 49, 49, 45, 48, 49>>
      [] s = "2026-11-02" -> <<50, 48, 50, 54, 45, 49, 49, 45, 48, 50>>
      [] s = "2026-11-03" -> <<50, 48, 50, 54, 45, 49, 49, 45, 48, 51>>
      [] s = "2026-11-03T12" -> <<50, 48, 50, 54, 45, 49, 49, 45, 48, 51, 84, 49, 50>>
      [] s = "2026-11-04" -> <<50, 48, 50, 54, 45, 49, 49, 45, 48, 52>>
      [] s = "9999-99-99" -> <<57, 57, 57, 57, 45, 57, 57, 45, 57, 57>>
      [] s \in Range(Instants) ->
            <<50, 48, 50, 54, 45, 49, 49, 45, 48, 51, 84, 49, 48, 58, 48, 48, 58, 48>>
            \o << 47 + (CHOOSE k \in DOMAIN Instants : Instants[k] = s) >>

\* str.isspace for one character
IsSpace(c) == c \in {9, 10, 11, 12, 13, 28, 29, 30, 31, 32, 133, 160}

RECURSIVE LStrip(_)
LStrip(cs) == IF cs # <<>> /\ IsSpace(Head(cs)) THEN LStrip(Tail(cs)) ELSE cs

RECURSIVE RStrip(_)
RStrip(cs) ==
    IF cs # <<>> /\ IsSpace(cs[Len(cs)]) THEN RStrip(SubSeq(cs, 1, Len(cs) - 1)) ELSE cs

\* the str of a sequence of characters
StrOf(cs) == CHOOSE s \in {"", "a", "b", "  ", " b "} : Chars(s) = cs

\* mutant of strip: the text is taken as typed
strip_AsTyped(s) == s

\* str.strip()
strip(s) == StrOf(RStrip(LStrip(Chars(s))))

\* s[:n] for a str (as characters) or a list; a negative n counts from the end
Slice(cs, n) ==
    IF n >= 0 THEN SubSeq(cs, 1, Min2(n, Len(cs)))
    ELSE SubSeq(cs, 1, Len(cs) + n)

\* Python's str comparison a < b: lexicographic on code points
RECURSIVE LexLess(_, _)
LexLess(a, b) ==
    IF b = <<>> THEN FALSE
    ELSE IF a = <<>> THEN TRUE
    ELSE IF Head(a) # Head(b) THEN Head(a) < Head(b)
    ELSE LexLess(Tail(a), Tail(b))

StrLess(a, b) == LexLess(Chars(a), Chars(b))

\* ------------------------------------------------------------------------
\* domain/enums.py
\* ------------------------------------------------------------------------
TaskStatus == {"inbox", "active", "scheduled", "completed", "cancelled"}
TaskPriority == {"none", "low", "medium", "high"}
TaskKind == {"task", "bug", "feature", "chore"}
TaskSize == {"xs", "s", "m", "l"}

\* ------------------------------------------------------------------------
\* domain/models.py: Task
\* ------------------------------------------------------------------------
\* Task(id, title, created_at, updated_at) with the dataclass defaults
Task(id, title, created_at, updated_at) ==
    [ id |-> id, title |-> title, created_at |-> created_at,
      updated_at |-> updated_at, order_index |-> 0, notes |-> NoneVal,
      due_date |-> NoneVal, start_date |-> NoneVal, completed_at |-> NoneVal,
      project_id |-> NoneVal, section_id |-> NoneVal,
      parent_task_id |-> NoneVal, priority |-> "none", tags |-> <<>>,
      status |-> "inbox", repeat_rule |-> NoneVal, deleted |-> FALSE,
      kind |-> NoneVal, size |-> NoneVal, assignee |-> NoneVal,
      context_url |-> NoneVal, metadata |-> {} ]

Task_to_dict(self) ==
    [ id |-> self.id, title |-> self.title, notes |-> self.notes,
      createdAt |-> self.created_at, updatedAt |-> self.updated_at,
      dueDate |-> self.due_date, startDate |-> self.start_date,
      completedAt |-> self.completed_at, projectId |-> self.project_id,
      sectionId |-> self.section_id, parentTaskId |-> self.parent_task_id,
      priority |-> self.priority, tags |-> self.tags, status |-> self.status,
      repeatRule |-> self.repeat_rule, orderIndex |-> self.order_index,
      deleted |-> self.deleted,
      kind |-> IF self.kind # NoneVal THEN self.kind ELSE NoneVal,
      size |-> IF self.size # NoneVal THEN self.size ELSE NoneVal,
      assignee |-> self.assignee, contextUrl |-> self.context_url,
      metadata |-> self.metadata ]

\* the exception Task.from_dict(data) raises, "" when it raises none
Task_from_dict_raises(data) ==
    IF ~({"id", "title"} \subseteq DOMAIN data) THEN "KeyError"
    ELSE IF Get(data, "priority", "none") \notin TaskPriority THEN "ValueError"
    ELSE IF Get(data, "status", "inbox") \notin TaskStatus THEN "ValueError"
    ELSE IF Truthy(Get(data, "kind", NoneVal)) /\ data["kind"] \notin TaskKind
        THEN "ValueError"
    ELSE IF Truthy(Get(data, "size", NoneVal)) /\ data["size"] \notin TaskSize
        THEN "ValueError"
    ELSE ""

Task_from_dict(data) ==
    [ id |-> data["id"],
      title |-> data["title"],
      notes |-> Get(data, "notes", NoneVal),
      created_at |-> Get(data, "createdAt", Get(data, "created_at", "")),
      updated_at |-> Get(data, "updatedAt", Get(data, "updated_at", "")),
      due_date |-> Get(data, "dueDate", Get(data, "due_date", NoneVal)),
      start_date |-> Get(data, "startDate", Get(data, "start_date", NoneVal)),
      completed_at |-> Get(data, "completedAt", Get(data, "completed_at", NoneVal)),
      project_id |-> Get(data, "projectId", Get(data, "project_id", NoneVal)),
      section_id |-> Get(data, "sectionId", Get(data, "section_id", NoneVal)),
      parent_task_id |-> Get(data, "parentTaskId", Get(data, "parent_task_id", NoneVal)),
      priority |-> Get(data, "priority", "none"),
      tags |-> Get(data, "tags", <<>>),
      status |-> Get(data, "status", "inbox"),
      repeat_rule |-> Get(data, "repeatRule", Get(data, "repeat_rule", NoneVal)),
      order_index |-> Get(data, "orderIndex", Get(data, "order_index", 0)),
      deleted |-> Get(data, "deleted", FALSE),
      kind |-> IF Truthy(Get(data, "kind", NoneVal)) THEN data["kind"] ELSE NoneVal,
      size |-> IF Truthy(Get(data, "size", NoneVal)) THEN data["size"] ELSE NoneVal,
      assignee |-> Get(data, "assignee", NoneVal),
      context_url |-> Get(data, "contextUrl", Get(data, "context_url", NoneVal)),
      metadata |-> Get(data, "metadata", {}) ]

\* ------------------------------------------------------------------------
\* domain/models.py: Reminder, Project, Section, Tag, StateSnapshot
\* ------------------------------------------------------------------------
Reminder_to_dict(self) ==
    [ id |-> self.id, taskId |-> self.task_id, at |-> self.at,
      createdAt |-> self.created_at, updatedAt |-> self.updated_at,
      cancelledAt |-> self.cancelled_at, deleted |-> self.deleted ]

Reminder_from_dict_raises(data) ==
    IF ~({"id", "at"} \subseteq DOMAIN data) THEN "KeyError" ELSE ""

Reminder_from_dict(data) ==
    [ id |-> data["id"],
      task_id |-> Get(data, "taskId", Get(data, "task_id", "")),
      at |-> data["at"],
      created_at |-> Get(data, "createdAt", Get(data, "created_at", "")),
      updated_at |-> Get(data, "updatedAt", Get(data, "updated_at", "")),
      cancelled_at |-> Get(data, "cancelledAt", Get(data, "cancelled_at", NoneVal)),
      deleted |-> Get(data, "deleted", FALSE) ]

Project_to_dict(self) ==
    [ id |-> self.id, name |-> self.name, description |-> self.description,
      color |-> self.color, icon |-> self.icon, orderIndex |-> self.order_index,
      isInbox |-> self.is_inbox, createdAt |-> self.created_at,
      updatedAt |-> self.updated_at, deleted |-> self.deleted ]

Project_from_dict_raises(data) ==
    IF ~({"id", "name"} \subseteq DOMAIN data) THEN "KeyError" ELSE ""

Project_from_dict(data) ==
    [ id |-> data["id"],
      name |-> data["name"],
      description |-> Get(data, "description", NoneVal),
      color |-> Get(data, "color", NoneVal),
      icon |-> Get(data, "icon", NoneVal),
      order_index |-> Get(data, "orderIndex", Get(data, "order_index", 0)),
      is_inbox |-> Get(data, "isInbox", Get(data, "is_inbox", FALSE)),
      created_at |-> Get(data, "createdAt", Get(data, "created_at", "")),
      updated_at |-> Get(data, "updatedAt", Get(data, "updated_at", "")),
      deleted |-> Get(data, "deleted", FALSE) ]

Section_to_dict(self) ==
    [ id |-> self.id, projectId |-> self.project_id, name |-> self.name,
      orderIndex |-> self.order_index, createdAt |-> self.created_at,
      updatedAt |-> self.updated_at, deleted |-> self.deleted ]

Section_from_dict_raises(data) ==
    IF ~({"id", "name"} \subseteq DOMAIN data) THEN "KeyError" ELSE ""

Section_from_dict(data) ==
    [ id |-> data["id"],
      project_id |-> Get(data, "projectId", Get(data, "project_id", "")),
      name |-> data["name"],
      order_index |-> Get(data, "orderIndex", Get(data, "order_index", 0)),
      created_at |-> Get(data, "createdAt", Get(data, "created_at", "")),
      updated_at |-> Get(data, "updatedAt", Get(data, "updated_at", "")),
      deleted |-> Get(data, "deleted", FALSE) ]

Tag_to_dict(self) ==
    [ id |-> self.id, name |-> self.name, color |-> self.color,
      createdAt |-> self.created_at, updatedAt |-> self.updated_at,
      deleted |-> self.deleted ]

Tag_from_dict_raises(data) ==
    IF ~({"id", "name"} \subseteq DOMAIN data) THEN "KeyError" ELSE ""

\* mutant of Tag_from_dict: the colour is not read
Tag_from_dict_NoColor(data) ==
    [ id |-> data["id"],
      name |-> data["name"],
      color |-> NoneVal,
      created_at |-> Get(data, "createdAt", Get(data, "created_at", "")),
      updated_at |-> Get(data, "updatedAt", Get(data, "updated_at", "")),
      deleted |-> Get(data, "deleted", FALSE) ]

Tag_from_dict(data) ==
    [ id |-> data["id"],
      name |-> data["name"],
      color |-> Get(data, "color", NoneVal),
      created_at |-> Get(data, "createdAt", Get(data, "created_at", "")),
      updated_at |-> Get(data, "updatedAt", Get(data, "updated_at", "")),
      deleted |-> Get(data, "deleted", FALSE) ]

\* A StateSnapshot: each of the five dicts is the sequence of its values in
\* insertion order, keyed by the id of the value.
StateSnapshot(ts, prjs, sections, tgs, reminders, version) ==
    [ tasks |-> ts, projects |-> prjs, sections |-> sections, tags |-> tgs,
      reminders |-> reminders, version |-> version ]

\* StateSnapshot.empty()
EmptySnapshot == StateSnapshot(<<>>, <<>>, <<>>, <<>>, <<>>, 1)

\* {k: v.to_dict() for k, v in d.items()}
MapSeq(s, F(_)) == [ i \in DOMAIN s |-> F(s[i]) ]

StateSnapshot_to_dict(self) ==
    [ tasks |-> MapSeq(self.tasks, Task_to_dict),
      projects |-> MapSeq(self.projects, Project_to_dict),
      sections |-> MapSeq(self.sections, Section_to_dict),
      tags |-> MapSeq(self.tags, Tag_to_dict),
      reminders |-> MapSeq(self.reminders, Reminder_to_dict),
      version |-> self.version ]

\* A parsed JSON value is an object (a function from keys to values) or a
\* value of another JSON type, which carries the key "jsontype".
IsJsonObject(v) == "jsontype" \notin DOMAIN v

\* the first exception in a sequence of outcomes, "" when there is none
FirstRaise(rs) ==
    IF \A i \in DOMAIN rs : rs[i] = "" THEN ""
    ELSE rs[CHOOSE i \in DOMAIN rs : rs[i] # "" /\ \A j \in 1..(i - 1) : rs[j] = ""]

\* the exception StateSnapshot.from_dict(data) raises, "" when it raises none
StateSnapshot_from_dict_raises(data) ==
    IF ~IsJsonObject(data) THEN "AttributeError"
    ELSE FirstRaise(
           MapSeq(Get(data, "tasks", <<>>), Task_from_dict_raises)
           \o MapSeq(Get(data, "projects", <<>>), Project_from_dict_raises)
           \o MapSeq(Get(data, "sections", <<>>), Section_from_dict_raises)
           \o MapSeq(Get(data, "tags", <<>>), Tag_from_dict_raises)
           \o MapSeq(Get(data, "reminders", <<>>), Reminder_from_dict_raises))

\* mutant: the version of the stored dict is not read
StateSnapshot_from_dict_NoVersion(data) ==
    [ tasks |-> MapSeq(Get(data, "tasks", <<>>), Task_from_dict),
      projects |-> MapSeq(Get(data, "projects", <<>>), Project_from_dict),
      sections |-> MapSeq(Get(data, "sections", <<>>), Section_from_dict),
      tags |-> MapSeq(Get(data, "tags", <<>>), Tag_from_dict),
      reminders |-> MapSeq(Get(data, "reminders", <<>>), Reminder_from_dict),
      version |-> 1 ]

StateSnapshot_from_dict(data) ==
    [ tasks |-> MapSeq(Get(data, "tasks", <<>>), Task_from_dict),
      projects |-> MapSeq(Get(data, "projects", <<>>), Project_from_dict),
      sections |-> MapSeq(Get(data, "sections", <<>>), Section_from_dict),
      tags |-> MapSeq(Get(data, "tags", <<>>), Tag_from_dict),
      reminders |-> MapSeq(Get(data, "reminders", <<>>), Reminder_from_dict),
      version |-> Get(data, "version", 1) ]

\* ------------------------------------------------------------------------
\* services/task_service.py
\* ------------------------------------------------------------------------
\* now_iso() when datetime.now() returns instant n
now_iso(n) == Instants[n + 1]

\* generate_id(): an id no task of the state has
TaskIds == {"t1", "t2"}

\* a float that is a dyadic rational n / d, d a power of two, in lowest terms;
\* the values the model reaches have numerators far below 2^53, so the float
\* operations on them are exact
FloatNorm(x) ==
    LET RECURSIVE Reduce(_, _)
        Reduce(n, d) == IF d > 1 /\ n % 2 = 0 THEN Reduce(n \div 2, d \div 2)
                        ELSE << n, d >>
    IN Reduce(x[1], x[2])

\* a + b
FloatAdd(a, b) == FloatNorm(<< a[1] * b[2] + b[1] * a[2], a[2] * b[2] >>)

\* a / 2
FloatHalf(a) == FloatNorm(<< a[1], 2 * a[2] >>)

\* a < b
FloatLess(a, b) == a[1] * b[2] < b[1] * a[2]

\* the float 1.0
FloatOne == << 1, 1 >>

\* max(t.order_index for t in tasks)
MaxOrderIndex(ts) ==
    LET i == CHOOSE i \in DOMAIN ts :
                 \A j \in DOMAIN ts : ~FloatLess(ts[i].order_index, ts[j].order_index)
    IN ts[i].order_index

get_next_order_index(ts) ==
    IF ts = << >> THEN FloatOne
    ELSE FloatAdd(MaxOrderIndex(ts), FloatOne)

\* mutant of get_order_index_between: with only a following task one is
\* subtracted instead of halving
get_order_index_between_Minus(before, after) ==
    IF before = << >> /\ after = << >> THEN FloatOne
    ELSE IF before = << >> THEN FloatAdd(after[1].order_index, << -1, 1 >>)
    ELSE IF after = << >> THEN FloatAdd(before[1].order_index, FloatOne)
    ELSE FloatHalf(FloatAdd(before[1].order_index, after[1].order_index))

\* get_order_index_between(before, after): an Optional[Task] is a sequence of
\* no task (None) or one task
get_order_index_between(before, after) ==
    IF before = << >> /\ after = << >> THEN FloatOne
    ELSE IF before = << >> THEN FloatHalf(after[1].order_index)
    ELSE IF after = << >> THEN FloatAdd(before[1].order_index, FloatOne)
    ELSE FloatHalf(FloatAdd(before[1].order_index, after[1].order_index))

field_mapping ==
    [ due_date |-> "dueDate", start_date |-> "startDate",
      completed_at |-> "completedAt", project_id |-> "projectId",
      section_id |-> "sectionId", parent_task_id |-> "parentTaskId",
      order_index |-> "orderIndex", created_at |-> "createdAt",
      updated_at |-> "updatedAt", context_url |-> "contextUrl",
      repeat_rule |-> "repeatRule" ]

\* mutant of DictKey: the snake_case names are not mapped to the dict keys
DictKey_Unmapped(key) == key

\* field_mapping.get(key, key)
DictKey(key) == Get(field_mapping, key, key)

create_task(id, title, due_date, status, now) ==
    [ Task(id, title, now, now) EXCEPT !.due_date = due_date, !.status = status ]

\* update_task(task, **updates), now being the value of its now_iso() call
update_task(task, updates, now) ==
    LET data == Task_to_dict(task)
        Hits(k) == {key \in DOMAIN updates : DictKey(key) = k}
        data1 == [ k \in DOMAIN data |->
                     IF Hits(k) # {} THEN updates[CHOOSE key \in Hits(k) : TRUE]
                     ELSE data[k] ]
        data2 == [ data1 EXCEPT !["updatedAt"] = now ]
    IN Task_from_dict(data2)

\* complete_task: now1 is its own now_iso() call, now2 the one of update_task
complete_task(task, now1, now2) ==
    update_task(task, [status |-> "completed", completed_at |-> now1], now2)

\* mutant of uncomplete_task: completed_at is not cleared
uncomplete_task_KeepsCompletedAt(task, now) ==
    update_task(task, [status |-> "inbox"], now)

uncomplete_task(task, now) ==
    update_task(task, [status |-> "inbox", completed_at |-> NoneVal], now)

toggle_completed(task, now1, now2) ==
    IF task.status = "completed" THEN uncomplete_task(task, now2)
    ELSE complete_task(task, now1, now2)

delete_task(task, now) == update_task(task, [deleted |-> TRUE], now)

\* ------------------------------------------------------------------------
\* domain/filters.py
\* ------------------------------------------------------------------------
DatePrefixLen == 10

\* date.today().isoformat()
today == Today

\* s[:10] as characters
DatePart(s) == Slice(Chars(s), DatePrefixLen)

\* mutant of Lower: the case is kept
Lower_KeepCase(cs) == cs

\* str.lower() on characters
Lower(cs) == [ i \in DOMAIN cs |-> IF cs[i] >= 65 /\ cs[i] <= 90 THEN cs[i] + 32 ELSE cs[i] ]

\* a in b for two strings, on characters
Contains(b, a) ==
    \E k \in 0..(Len(b) - Len(a)) : SubSeq(b, k + 1, k + Len(a)) = a

\* sorted(s, key=...) where Less(a, b) is key(a) < key(b): Python's sort is stable
SortedBy(s, Less(_, _)) ==
    LET rank(i) == Cardinality({ j \in DOMAIN s :
                        Less(s[j], s[i]) \/ (~Less(s[i], s[j]) /\ j < i) }) + 1
    IN [ p \in DOMAIN s |-> s[CHOOSE i \in DOMAIN s : rank(i) = p] ]

ByOrderIndex(a, b) == a.order_index < b.order_index

\* ViewCriteria() with the dataclass defaults; the lists are sets
ViewCriteria ==
    [ statuses |-> {}, project_ids |-> {}, tag_ids |-> {}, priorities |-> {},
      kinds |-> {}, sizes |-> {}, assignee |-> NoneVal,
      due_date_start |-> NoneVal, due_date_end |-> NoneVal,
      start_date_start |-> NoneVal, start_date_end |-> NoneVal,
      include_deleted |-> FALSE, search_query |-> NoneVal ]

\* the body of the loop of filter_tasks: TRUE when the task is appended
FilterMatches(task, criteria) ==
    /\ ~(~criteria.include_deleted /\ task.deleted)
    /\ ~(criteria.statuses # {} /\ task.status \notin criteria.statuses)
    /\ ~(criteria.project_ids # {} /\ task.project_id \notin criteria.project_ids)
    /\ ~(criteria.tag_ids # {} /\ ~(\E tag \in criteria.tag_ids : tag \in Range(task.tags)))
    /\ ~(criteria.priorities # {} /\ task.priority \notin criteria.priorities)
    /\ ~(criteria.kinds # {} /\ task.kind \notin criteria.kinds)
    /\ ~(criteria.sizes # {} /\ task.size \notin criteria.sizes)
    /\ ~(Truthy(criteria.assignee) /\ task.assignee # criteria.assignee)
    /\ (Truthy(criteria.due_date_start) \/ Truthy(criteria.due_date_end)) =>
          /\ Truthy(task.due_date)
          /\ ~(Truthy(criteria.due_date_start)
                 /\ LexLess(DatePart(task.due_date), Chars(criteria.due_date_start)))
          /\ ~(Truthy(criteria.due_date_end)
                 /\ LexLess(Chars(criteria.due_date_end), DatePart(task.due_date)))
    /\ (Truthy(criteria.start_date_start) \/ Truthy(criteria.start_date_end)) =>
          /\ Truthy(task.start_date)
          /\ ~(Truthy(criteria.start_date_start)
                 /\ LexLess(DatePart(task.start_date), Chars(criteria.start_date_start)))
          /\ ~(Truthy(criteria.start_date_end)
                 /\ LexLess(Chars(criteria.start_date_end), DatePart(task.start_date)))
    /\ Truthy(criteria.search_query) =>
          LET query == Lower(Chars(criteria.search_query))
          IN ~( ~Contains(Lower(Chars(task.title)), query)
                /\ (~Truthy(task.notes) \/ ~Contains(Lower(Chars(task.notes)), query)) )

filter_tasks(ts, criteria) == SelectSeq(ts, LAMBDA t : FilterMatches(t, criteria))

get_inbox_tasks(ts) ==
    SortedBy(filter_tasks(ts, [ViewCriteria EXCEPT !.statuses = {"inbox"}]), ByOrderIndex)

\* is_overdue of get_today_tasks, as the truth value Python gives it
IsOverdue(t) == Truthy(t.due_date) /\ LexLess(DatePart(t.due_date), Chars(today))

\* mutant of TodayMatches: a task that starts today is not listed
TodayMatches_NoStart(task) ==
    /\ ~task.deleted
    /\ task.status \notin {"completed", "cancelled"}
    /\ \/ Truthy(task.due_date) /\ DatePart(task.due_date) = Chars(today)
       \/ IsOverdue(task)

TodayMatches(task) ==
    /\ ~task.deleted
    /\ task.status \notin {"completed", "cancelled"}
    /\ LET is_due_today == Truthy(task.due_date) /\ DatePart(task.due_date) = Chars(today)
           is_starting_today ==
               Truthy(task.start_date) /\ DatePart(task.start_date) = Chars(today)
           is_overdue == IsOverdue(task)
       IN is_due_today \/ is_starting_today \/ is_overdue

\* sort_key of get_today_tasks: (not is_overdue, due, t.order_index)
TodaySortKey(t) ==
    << IF IsOverdue(t) THEN 0 ELSE 1,
       IF Truthy(t.due_date) THEN t.due_date ELSE MaxDate,
       t.order_index >>

\* mutant of TodayKeyLess: the key starts with is_overdue instead of not is_overdue
TodayKeyLess_OverdueLast(a, b) ==
    LET ka == TodaySortKey(a)
        kb == TodaySortKey(b)
    IN \/ ka[1] > kb[1]
       \/ ka[1] = kb[1] /\ StrLess(ka[2], kb[2])
       \/ ka[1] = kb[1] /\ ka[2] = kb[2] /\ ka[3] < kb[3]

\* tuple comparison of two sort keys of get_today_tasks
TodayKeyLess(a, b) ==
    LET ka == TodaySortKey(a)
        kb == TodaySortKey(b)
    IN \/ ka[1] < kb[1]
       \/ ka[1] = kb[1] /\ StrLess(ka[2], kb[2])
       \/ ka[1] = kb[1] /\ ka[2] = kb[2] /\ ka[3] < kb[3]

get_today_tasks(ts) == SortedBy(SelectSeq(ts, TodayMatches), TodayKeyLess)

\* mutant of UpcomingMatches: dates are compared with >= today
UpcomingMatches_FromToday(task) ==
    /\ ~task.deleted
    /\ task.status \notin {"completed", "cancelled"}
    /\ \/ Truthy(task.due_date) /\ ~LexLess(DatePart(task.due_date), Chars(today))
       \/ Truthy(task.start_date) /\ ~LexLess(DatePart(task.start_date), Chars(today))

UpcomingMatches(task) ==
    /\ ~task.deleted
    /\ task.status \notin {"completed", "cancelled"}
    /\ \/ Truthy(task.due_date) /\ LexLess(Chars(today), DatePart(task.due_date))
       \/ Truthy(task.start_date) /\ LexLess(Chars(today), DatePart(task.start_date))

\* min of a non-empty set of character sequences
LexMin(S) == CHOOSE m \in S : \A x \in S : ~LexLess(x, m)

\* mutant of UpcomingSortKey: the later of the two dates is the key
UpcomingSortKey_Latest(t) ==
    LET dates == (IF Truthy(t.due_date) THEN {DatePart(t.due_date)} ELSE {})
                 \cup (IF Truthy(t.start_date) THEN {DatePart(t.start_date)} ELSE {})
    IN IF dates # {} THEN CHOOSE m \in dates : \A x \in dates : ~LexLess(m, x)
       ELSE Chars(MaxDate)

\* sort_key of get_upcoming_tasks
UpcomingSortKey(t) ==
    LET dates == (IF Truthy(t.due_date) THEN {DatePart(t.due_date)} ELSE {})
                 \cup (IF Truthy(t.start_date) THEN {DatePart(t.start_date)} ELSE {})
    IN IF dates # {} THEN LexMin(dates) ELSE Chars(MaxDate)

UpcomingKeyLess(a, b) == LexLess(UpcomingSortKey(a), UpcomingSortKey(b))

get_upcoming_tasks(ts) == SortedBy(SelectSeq(ts, UpcomingMatches), UpcomingKeyLess)

\* mutant of AnytimeMatches: a task with a start date and no due date is listed
AnytimeMatches_DueOnly(task) ==
    /\ ~task.deleted
    /\ task.status \in {"active", "inbox"}
    /\ ~Truthy(task.due_date)

AnytimeMatches(task) ==
    /\ ~task.deleted
    /\ task.status \in {"active", "inbox"}
    /\ ~(Truthy(task.due_date) \/ Truthy(task.start_date))

get_anytime_tasks(ts) == SortedBy(SelectSeq(ts, AnytimeMatches), ByOrderIndex)

\* mutant of CompletedKeyLess: reverse=True is left out
CompletedKeyLess_Ascending(a, b) ==
    StrLess(IF Truthy(a.completed_at) THEN a.completed_at ELSE "",
            IF Truthy(b.completed_at) THEN b.completed_at ELSE "")

\* key of get_completed_tasks (t.completed_at or ""), reverse=True
CompletedKeyLess(a, b) ==
    StrLess(IF Truthy(b.completed_at) THEN b.completed_at ELSE "",
            IF Truthy(a.completed_at) THEN a.completed_at ELSE "")

get_completed_tasks(ts, limit) ==
    LET result == filter_tasks(ts, [ViewCriteria EXCEPT !.statuses = {"completed"}])
        sorted == SortedBy(result, CompletedKeyLess)
    IN Slice(sorted, limit)

\* mutant of OverdueMatches: the status of the task is not looked at
OverdueMatches_AnyStatus(task) ==
    /\ ~task.deleted
    /\ Truthy(task.due_date) /\ LexLess(DatePart(task.due_date), Chars(today))

OverdueMatches(task) ==
    /\ ~task.deleted
    /\ task.status \notin {"completed", "cancelled"}
    /\ Truthy(task.due_date) /\ LexLess(DatePart(task.due_date), Chars(today))

\* key of get_overdue_tasks: t.due_date or ""
OverdueKeyLess(a, b) ==
    StrLess(IF Truthy(a.due_date) THEN a.due_date ELSE "",
            IF Truthy(b.due_date) THEN b.due_date ELSE "")

get_overdue_tasks(ts) == SortedBy(SelectSeq(ts, OverdueMatches), OverdueKeyLess)

\* mutant of ProjectMatches: deleted tasks are not skipped
ProjectMatches_KeepsDeleted(task, project_id) ==
    /\ task.status \notin {"completed", "cancelled"}
    /\ task.project_id = project_id

ProjectMatches(task, project_id) ==
    /\ ~task.deleted
    /\ task.status \notin {"completed", "cancelled"}
    /\ task.project_id = project_id

get_project_tasks(ts, project_id) ==
    SortedBy(SelectSeq(ts, LAMBDA t : ProjectMatches(t, project_id)), ByOrderIndex)

TagMatches(task, tag_id) ==
    /\ ~task.deleted
    /\ task.status \notin {"completed", "cancelled"}
    /\ tag_id \in Range(task.tags)

get_tag_tasks(ts, tag_id) ==
    SortedBy(SelectSeq(ts, LAMBDA t : TagMatches(t, tag_id)), ByOrderIndex)

search_tasks(ts, query) ==
    filter_tasks(ts, [ViewCriteria EXCEPT !.search_query = query])

\* ------------------------------------------------------------------------
\* domain/models.py: TogglTimeEntry; services/toggl_service.py;
\* utils/standup_report.py
\* ------------------------------------------------------------------------
\* TogglTimeEntry with the fields the totals read
TogglTimeEntry(id, duration, start, project_name) ==
    [ id |-> id, duration |-> duration, start |-> start,
      project_name |-> project_name ]

\* TogglTimeEntry.duration_hours: duration / 3600, for a running timer
\* (now - start).total_seconds() / 3600, elapsed being those seconds. The
\* durations are multiples of 900 s, whose hours are exact floats.
duration_hours(self, elapsed) ==
    IF self.duration < 0 THEN FloatNorm(<< elapsed \div 900, 4 >>)
    ELSE FloatNorm(<< self.duration \div 900, 4 >>)

\* d[key] = value on a dict
Put(d, key, value) ==
    [ k \in DOMAIN d \cup {key} |-> IF k = key THEN value ELSE d[k] ]

\* the loop of get_duration_by_day over the fetched entries
get_duration_by_day(entries, elapsed) ==
    LET RECURSIVE Loop(_, _)
        Loop(i, by_day) ==
            IF i > Len(entries) THEN by_day
            ELSE IF entries[i].duration < 0 THEN Loop(i + 1, by_day)
            ELSE LET day == DatePart(entries[i].start)
                 IN Loop(i + 1,
                         Put(by_day, day,
                             FloatAdd(Get(by_day, day, << 0, 1 >>),
                                      duration_hours(entries[i], elapsed))))
    IN Loop(1, << >>)

\* mutant of get_duration_by_project: a running timer is not skipped
get_duration_by_project_CountsRunning(entries, elapsed) ==
    LET RECURSIVE Loop(_, _)
        Loop(i, by_project) ==
            IF i > Len(entries) THEN by_project
            ELSE LET project_name ==
                         IF Truthy(entries[i].project_name)
                         THEN entries[i].project_name ELSE "No Project"
                 IN Loop(i + 1,
                         Put(by_project, project_name,
                             FloatAdd(Get(by_project, project_name, << 0, 1 >>),
                                      duration_hours(entries[i], elapsed))))
    IN Loop(1, << >>)

\* the loop of get_duration_by_project over the fetched entries
get_duration_by_project(entries, elapsed) ==
    LET RECURSIVE Loop(_, _)
        Loop(i, by_project) ==
            IF i > Len(entries) THEN by_project
            ELSE IF entries[i].duration < 0 THEN Loop(i + 1, by_project)
            ELSE LET project_name ==
                         IF Truthy(entries[i].project_name)
                         THEN entries[i].project_name ELSE "No Project"
                 IN Loop(i + 1,
                         Put(by_project, project_name,
                             FloatAdd(Get(by_project, project_name, << 0, 1 >>),
                                      duration_hours(entries[i], elapsed))))
    IN Loop(1, << >>)

\* generate_standup_report, the tracked-time line: whether it is written and
\* the total_hours it shows
standup_total(toggl_entries, elapsed) ==
    LET yesterday == Yesterday
        yesterday_entries ==
            SelectSeq(toggl_entries, LAMBDA e : DatePart(e.start) = Chars(yesterday))
        RECURSIVE Sum(_, _)
        Sum(i, acc) ==
            IF i > Len(yesterday_entries) THEN acc
            ELSE IF yesterday_entries[i].duration > 0
            THEN Sum(i + 1, FloatAdd(acc, duration_hours(yesterday_entries[i], elapsed)))
            ELSE Sum(i + 1, acc)
    IN IF toggl_entries # << >> /\ yesterday_entries # << >>
       THEN [shown |-> TRUE, total_hours |-> Sum(1, << 0, 1 >>)]
       ELSE [shown |-> FALSE]

\* default of get_completed_tasks(tasks, limit=100)
DefaultLimit == 100

\* ------------------------------------------------------------------------
\* repository/sqlite_repository.py
\* ------------------------------------------------------------------------
\* What a TEXT column or the metadata row holds: no row, NULL, '', text that is
\* not JSON, or the JSON text of a value (json.dumps).
NoRow == [form |-> "absent"]
SqlNull == [form |-> "null"]
EmptyText == [form |-> "empty"]
GarbageText == [form |-> "garbage"]
json_dumps(v) == [form |-> "json", value |-> v]

\* 'if row and row[0]' / 'if row[20]'
TextTruthy(text) == text.form \in {"garbage", "json"}

\* the database as a connection sees it: the metadata row 'snapshot' and the
\* rows of the six tables (a row is a record of its columns)
EmptyDb ==
    [ blob |-> NoRow, tasks |-> {}, task_tags |-> {}, projects |-> {},
      sections |-> {}, tags |-> {}, reminders |-> {} ]

\* the column order of the CREATE TABLE statements of init_db
TaskColumns ==
    << "id", "title", "notes", "created_at", "updated_at", "due_date",
       "start_date", "completed_at", "project_id", "section_id",
       "parent_task_id", "priority", "status", "repeat_rule", "order_index",
       "deleted", "kind", "size", "assignee", "context_url", "metadata" >>
ProjectColumns ==
    << "id", "name", "description", "color", "icon", "order_index", "is_inbox",
       "created_at", "updated_at", "deleted" >>
SectionColumns ==
    << "id", "project_id", "name", "order_index", "created_at", "updated_at",
       "deleted" >>
TagColumns == << "id", "name", "color", "created_at", "updated_at", "deleted" >>
ReminderColumns ==
    << "id", "task_id", "at", "created_at", "updated_at", "cancelled_at", "deleted" >>

\* int(b) and bool(n)
BoolToInt(b) == IF b THEN 1 ELSE 0
IntToBool(n) == n # 0

\* the parameters of the INSERT OR REPLACE INTO tasks of _save_to_tables
TaskRow(task) ==
    [ id |-> task.id, title |-> task.title, notes |-> task.notes,
      created_at |-> task.created_at, updated_at |-> task.updated_at,
      due_date |-> task.due_date, start_date |-> task.start_date,
      completed_at |-> task.completed_at, project_id |-> task.project_id,
      section_id |-> task.section_id, parent_task_id |-> task.parent_task_id,
      priority |-> task.priority, status |-> task.status,
      repeat_rule |-> task.repeat_rule, order_index |-> task.order_index,
      deleted |-> BoolToInt(task.deleted),
      kind |-> IF task.kind # NoneVal THEN task.kind ELSE NoneVal,
      size |-> IF task.size # NoneVal THEN task.size ELSE NoneVal,
      assignee |-> task.assignee, context_url |-> task.context_url,
      metadata |-> IF task.metadata # {} THEN json_dumps(task.metadata) ELSE SqlNull ]

ProjectRow(project) ==
    [ id |-> project.id, name |-> project.name,
      description |-> project.description, color |-> project.color,
      icon |-> project.icon, order_index |-> project.order_index,
      is_inbox |-> BoolToInt(project.is_inbox),
      created_at |-> project.created_at, updated_at |-> project.updated_at,
      deleted |-> BoolToInt(project.deleted) ]

SectionRow(section) ==
    [ id |-> section.id, project_id |-> section.project_id,
      name |-> section.name, order_index |-> section.order_index,
      created_at |-> section.created_at, updated_at |-> section.updated_at,
      deleted |-> BoolToInt(section.deleted) ]

TagRow(tag) ==
    [ id |-> tag.id, name |-> tag.name, color |-> tag.color,
      created_at |-> tag.created_at, updated_at |-> tag.updated_at,
      deleted |-> BoolToInt(tag.deleted) ]

ReminderRow(reminder) ==
    [ id |-> reminder.id, task_id |-> reminder.task_id, at |-> reminder.at,
      created_at |-> reminder.created_at, updated_at |-> reminder.updated_at,
      cancelled_at |-> reminder.cancelled_at,
      deleted |-> BoolToInt(reminder.deleted) ]

\* the statements _save_to_tables awaits for one task, in order
TaskStatements(task) ==
    << [op |-> "task", row |-> TaskRow(task)],
       [op |-> "delete_task_tags", task_id |-> task.id] >>
    \o [ i \in DOMAIN task.tags |->
           [op |-> "task_tag", task_id |-> task.id, tag_id |-> task.tags[i]] ]

RECURSIVE AllTaskStatements(_)
AllTaskStatements(ts) ==
    IF ts = <<>> THEN <<>>
    ELSE TaskStatements(Head(ts)) \o AllTaskStatements(Tail(ts))

\* the statements save_snapshot awaits before its commit, in order
Statements(snapshot) ==
    << [op |-> "blob", text |-> json_dumps(StateSnapshot_to_dict(snapshot))] >>
    \o AllTaskStatements(snapshot.tasks)
    \o [ i \in DOMAIN snapshot.projects |->
           [op |-> "project", row |-> ProjectRow(snapshot.projects[i])] ]
    \o [ i \in DOMAIN snapshot.sections |->
           [op |-> "section", row |-> SectionRow(snapshot.sections[i])] ]
    \o [ i \in DOMAIN snapshot.tags |->
           [op |-> "tag", row |-> TagRow(snapshot.tags[i])] ]
    \o [ i \in DOMAIN snapshot.reminders |->
           [op |-> "reminder", row |-> ReminderRow(snapshot.reminders[i])] ]

HasId(table, id) == \E r \in table : r.id = id

\* INSERT OR REPLACE on a table whose primary key is id
Upsert(table, row) == {r \in table : r.id # row.id} \cup {row}

\* PRAGMA foreign_keys = ON: the statement leaves a row that refers to a
\* missing parent row (the FOREIGN KEY clauses of init_db), so SQLite undoes
\* the statement and execute raises IntegrityError
ForeignKeyFails(db, st) ==
    CASE st.op = "task" ->
           \/ st.row.project_id # NoneVal /\ ~HasId(db.projects, st.row.project_id)
           \/ st.row.section_id # NoneVal /\ ~HasId(db.sections, st.row.section_id)
           \/ /\ st.row.parent_task_id # NoneVal
              /\ st.row.parent_task_id # st.row.id
              /\ ~HasId(db.tasks, st.row.parent_task_id)
      [] st.op = "task_tag" ->
           /\ << st.task_id, st.tag_id >> \notin db.task_tags
           /\ ~HasId(db.tags, st.tag_id) \/ ~HasId(db.tasks, st.task_id)
      [] st.op = "section" -> ~HasId(db.projects, st.row.project_id)
      [] st.op = "reminder" -> ~HasId(db.tasks, st.row.task_id)
      [] OTHER -> FALSE

\* the database after 'await conn.execute(statement)' returned
Execute(db, st) ==
    CASE st.op = "blob" -> [ db EXCEPT !.blob = st.text ]
      [] st.op = "task" -> [ db EXCEPT !.tasks = Upsert(@, st.row) ]
      [] st.op = "delete_task_tags" ->
           [ db EXCEPT !.task_tags = {l \in @ : l[1] # st.task_id} ]
      [] st.op = "task_tag" ->
           [ db EXCEPT !.task_tags = @ \cup {<< st.task_id, st.tag_id >>} ]
      [] st.op = "project" -> [ db EXCEPT !.projects = Upsert(@, st.row) ]
      [] st.op = "section" -> [ db EXCEPT !.sections = Upsert(@, st.row) ]
      [] st.op = "tag" -> [ db EXCEPT !.tags = Upsert(@, st.row) ]
      [] st.op = "reminder" -> [ db EXCEPT !.reminders = Upsert(@, st.row) ]

\* the statements of a save run one after the other on the connection until
\* one raises: the database the connection then sees, and the exception
RECURSIVE RunStatements(_, _)
RunStatements(db, sts) ==
    IF sts = <<>> THEN [db |-> db, raised |-> ""]
    ELSE IF ForeignKeyFails(db, Head(sts)) THEN [db |-> db, raised |-> "IntegrityError"]
    ELSE RunStatements(Execute(db, Head(sts)), Tail(sts))

\* a value sequence for a set (the order in which rows come back)
RECURSIVE SetToSeq(_)
SetToSeq(S) ==
    IF S = {} THEN <<>>
    ELSE LET x == CHOOSE y \in S : TRUE IN << x >> \o SetToSeq(S \ {x})

\* a row of 'SELECT * FROM table' as the tuple the cursor yields
SelectStar(row, columns) == [ i \in DOMAIN columns |-> row[columns[i]] ]

\* _load_from_tables: the task built from a row of tasks and the rows of task_tags
LoadTask(db, r) ==
    LET row == SelectStar(r, TaskColumns)
        task_data ==
          [ id |-> row[1], title |-> row[2], notes |-> row[3],
            created_at |-> row[4], updated_at |-> row[5], due_date |-> row[6],
            start_date |-> row[7], completed_at |-> row[8],
            project_id |-> row[9], section_id |-> row[10],
            parent_task_id |-> row[11], priority |-> row[12],
            status |-> row[13], repeat_rule |-> row[14],
            order_index |-> row[15], deleted |-> IntToBool(row[16]),
            kind |-> row[17], size |-> row[18], assignee |-> row[19],
            context_url |-> row[20],
            metadata |-> IF TextTruthy(row[21]) THEN row[21].value ELSE {},
            tags |-> <<>> ]
        task == Task_from_dict(task_data)
    IN [ task EXCEPT !.tags =
           SetToSeq({l[2] : l \in {m \in db.task_tags : m[1] = row[1]}}) ]

LoadProject(r) ==
    LET row == SelectStar(r, ProjectColumns)
    IN Project_from_dict(
         [ id |-> row[1], name |-> row[2], description |-> row[3],
           color |-> row[4], icon |-> row[5], order_index |-> row[6],
           is_inbox |-> IntToBool(row[7]), created_at |-> row[8],
           updated_at |-> row[9], deleted |-> IntToBool(row[10]) ])

LoadSection(r) ==
    LET row == SelectStar(r, SectionColumns)
    IN Section_from_dict(
         [ id |-> row[1], project_id |-> row[2], name |-> row[3],
           order_index |-> row[4], created_at |-> row[5],
           updated_at |-> row[6], deleted |-> IntToBool(row[7]) ])

LoadTag(r) ==
    LET row == SelectStar(r, TagColumns)
    IN Tag_from_dict(
         [ id |-> row[1], name |-> row[2], color |-> row[3],
           created_at |-> row[4], updated_at |-> row[5],
           deleted |-> IntToBool(row[6]) ])

LoadReminder(r) ==
    LET row == SelectStar(r, ReminderColumns)
    IN Reminder_from_dict(
         [ id |-> row[1], task_id |-> row[2], at |-> row[3],
           created_at |-> row[4], updated_at |-> row[5],
           cancelled_at |-> row[6], deleted |-> IntToBool(row[7]) ])

_load_from_tables(db) ==
    StateSnapshot(
        SetToSeq({ LoadTask(db, r) : r \in db.tasks }),
        SetToSeq({ LoadProject(r) : r \in db.projects }),
        SetToSeq({ LoadSection(r) : r \in db.sections }),
        SetToSeq({ LoadTag(r) : r \in db.tags }),
        SetToSeq({ LoadReminder(r) : r \in db.reminders }),
        1)

\* get_snapshot: the exception it raises ("" for none), the path that gave
\* the snapshot, and the snapshot
get_snapshot(db) ==
    LET row == db.blob
        tables == [raised |-> "", via |-> "tables", snap |-> _load_from_tables(db)]
    IN IF ~TextTruthy(row) THEN tables
       ELSE IF row.form = "garbage" THEN tables      \* json.JSONDecodeError: pass
       ELSE LET raised == StateSnapshot_from_dict_raises(row.value)
            IN IF raised = "" THEN
                   [raised |-> "", via |-> "blob",
                    snap |-> StateSnapshot_from_dict(row.value)]
               ELSE IF raised = "KeyError" THEN tables   \* KeyError: pass
               ELSE [raised |-> raised, via |-> "none", snap |-> EmptySnapshot]

\* ------------------------------------------------------------------------
\* state/app_state.py
\* ------------------------------------------------------------------------
KeyOf(ts, id) == CHOOSE i \in DOMAIN ts : ts[i].id = id

Ids(ts) == {ts[i].id : i \in DOMAIN ts}

\* AppState.add_task: self.tasks[task.id] = task
add_task(ts, task) ==
    IF task.id \in Ids(ts) THEN [ ts EXCEPT ![KeyOf(ts, task.id)] = task ]
    ELSE Append(ts, task)

\* mutant of remove_task: the entry is taken out of the map
remove_task_HardDelete(ts, task_id) == SelectSeq(ts, LAMBDA t : t.id # task_id)

\* AppState.remove_task: the task is flagged in place, nothing else is set
remove_task(ts, task_id) ==
    IF task_id \in Ids(ts)
    THEN [ ts EXCEPT ![KeyOf(ts, task_id)].deleted = TRUE ]
    ELSE ts

\* AppState.add_project: self.projects[project.id] = project
add_project(prjs, project) ==
    IF project.id \in Ids(prjs) THEN [ prjs EXCEPT ![KeyOf(prjs, project.id)] = project ]
    ELSE Append(prjs, project)

\* AppState.remove_project
remove_project(prjs, project_id) ==
    IF project_id \in Ids(prjs)
    THEN [ prjs EXCEPT ![KeyOf(prjs, project_id)].deleted = TRUE ]
    ELSE prjs

\* AppState.add_tag: self.tags[tag.id] = tag
add_tag(tgs, tag) ==
    IF tag.id \in Ids(tgs) THEN [ tgs EXCEPT ![KeyOf(tgs, tag.id)] = tag ]
    ELSE Append(tgs, tag)

\* AppState.remove_tag
remove_tag(tgs, tag_id) ==
    IF tag_id \in Ids(tgs)
    THEN [ tgs EXCEPT ![KeyOf(tgs, tag_id)].deleted = TRUE ]
    ELSE tgs

\* AppState.all_tasks
all_tasks(ts) == SelectSeq(ts, LAMBDA t : ~t.deleted)

\* the task lists the application renders (AppState properties, _get_task_counts)
ComputeViews(ts) ==
    [ inbox |-> get_inbox_tasks(ts), today |-> get_today_tasks(ts),
      upcoming |-> get_upcoming_tasks(ts), anytime |-> get_anytime_tasks(ts),
      completed |-> get_completed_tasks(ts, DefaultLimit),
      overdue |-> get_overdue_tasks(ts), rendered |-> TRUE ]

\* no service function has been called
NoCall == [fn |-> "none"]

NoViews == [ inbox |-> <<>>, today |-> <<>>, upcoming |-> <<>>, anytime |-> <<>>,
             completed |-> <<>>, overdue |-> <<>>, rendered |-> FALSE ]

\* ------------------------------------------------------------------------
\* Specification Spec: the mutation service driving AppState.tasks
\* (PhitodoApp.action_new_task, action_edit_task, action_toggle_complete,
\* action_delete_task: service call, then AppState.add_task)
\* ------------------------------------------------------------------------
vars ==
    << tasks, clock, nops, input, views, projects, tags, call,
       disk, conn, last_saved, loaded, saves,
       github, toggl, nav, fetches, requests, modal >>

appVars == << tasks, clock, nops, input, views, projects, tags, call >>
repoVars == << disk, conn, last_saved, loaded, saves >>
uiVars == << github, toggl, nav, fetches, requests, modal >>

\* the keyword arguments update_task is called with
Updates ==
    { [status |-> "active"], [status |-> "completed"], [status |-> "cancelled"],
      [due_date |-> Yesterday], [due_date |-> Tomorrow], [due_date |-> NoneVal],
      [start_date |-> Today], [deleted |-> FALSE], [completed_at |-> NoneVal],
      [project_id |-> "p1"], [tags |-> <<"g1">>], [title |-> "b"],
      [foo |-> "x"] }

CreateStatuses == {"inbox", "completed", "scheduled"}
CreateDueDates == {NoneVal, Today}

\* the instants a call of datetime.now() can return after instant n
Now(n) == {m \in {n, n + 1} : m <= MaxClock}

\* no save and no load yet
NoSave == [saved |-> FALSE]
NoLoad == [op |-> "none"]

SaveWorkers == {"w1", "w2"}
Idle == [pc |-> 0]

\* ------------------------------------------------------------------------
\* state/app_state.py: the service and UI fields of AppState
\* ------------------------------------------------------------------------
ViewTypes ==
    { "inbox", "today", "upcoming", "anytime", "completed", "review",
      "github", "toggl", "settings", "project", "tag" }

\* the dataclass defaults of the GitHub, Toggl and UI fields
GitHubDefault ==
    [ assigned_issues |-> <<>>, review_prs |-> <<>>, my_prs |-> <<>>,
      loading |-> FALSE, error |-> NoneVal ]

TogglDefault == [ entries |-> <<>>, loading |-> FALSE, error |-> NoneVal ]

NavDefault ==
    [ current_view |-> "inbox", viewing_project_id |-> NoneVal,
      viewing_tag_id |-> NoneVal, search_query |-> NoneVal ]

set_view(self, view) ==
    [ self EXCEPT !.current_view = view, !.viewing_project_id = NoneVal,
                  !.viewing_tag_id = NoneVal, !.search_query = NoneVal ]

\* mutant of view_project: the tag being viewed is kept
view_project_KeepsTag(self, project_id) ==
    [ self EXCEPT !.current_view = "project", !.viewing_project_id = project_id ]

view_project(self, project_id) ==
    [ self EXCEPT !.current_view = "project", !.viewing_project_id = project_id,
                  !.viewing_tag_id = NoneVal ]

view_tag(self, tag_id) ==
    [ self EXCEPT !.current_view = "tag", !.viewing_tag_id = tag_id,
                  !.viewing_project_id = NoneVal ]

set_github_data(self, issues, review_prs, my_prs) ==
    [ self EXCEPT !.assigned_issues = issues, !.review_prs = review_prs,
                  !.my_prs = my_prs, !.loading = FALSE, !.error = NoneVal ]

\* mutant of set_github_error: the stored lists are emptied
set_github_error_ClearsLists(self, error) ==
    [ self EXCEPT !.error = error, !.loading = FALSE, !.assigned_issues = <<>>,
                  !.review_prs = <<>>, !.my_prs = <<>> ]

set_github_error(self, error) == [ self EXCEPT !.error = error, !.loading = FALSE ]

set_toggl_entries(self, entries) ==
    [ self EXCEPT !.entries = entries, !.loading = FALSE, !.error = NoneVal ]

set_toggl_error(self, error) == [ self EXCEPT !.error = error, !.loading = FALSE ]

\* the fetch workers and the modal screen
FetchWorkers == {"f1", "f2"}
NoFetch == [pc |-> 0]
NoModal == [screen |-> "none"]

\* the UI after on_mount, nothing in flight and no modal open
UiIdle ==
    /\ github = GitHubDefault
    /\ toggl = TogglDefault
    /\ nav = NavDefault
    /\ fetches = [f \in FetchWorkers |-> NoFetch]
    /\ requests = [github |-> 0, toggl |-> 0]
    /\ modal = NoModal

\* the repository on a new database file, nothing in flight
RepoIdle ==
    /\ disk = EmptyDb
    /\ conn = EmptyDb
    /\ last_saved = NoSave
    /\ loaded = NoLoad
    /\ saves = [w \in SaveWorkers |-> Idle]

Init ==
    /\ tasks = <<>>
    /\ clock = 0
    /\ nops = 0
    /\ input = <<>>
    /\ views = NoViews
    /\ projects = <<>>
    /\ tags = <<>>
    /\ call = NoCall
    /\ RepoIdle
    /\ UiIdle

CreateTask ==
    /\ nops < MaxOps
    /\ TaskIds \ Ids(tasks) # {}
    /\ \E status \in CreateStatuses, due \in CreateDueDates, n \in Now(clock) :
         LET id == CHOOSE i \in TaskIds \ Ids(tasks) : TRUE
         IN /\ tasks' = add_task(tasks, create_task(id, "a", due, status, now_iso(n)))
            /\ clock' = n
    /\ nops' = nops + 1
    /\ UNCHANGED << input, views, projects, tags, call >>
    /\ UNCHANGED repoVars
    /\ UNCHANGED uiVars

UpdateTask ==
    /\ nops < MaxOps
    /\ \E i \in DOMAIN tasks, updates \in Updates, n \in Now(clock) :
         /\ tasks' = add_task(tasks, update_task(tasks[i], updates, now_iso(n)))
         /\ clock' = n
    /\ nops' = nops + 1
    /\ UNCHANGED << input, views, projects, tags, call >>
    /\ UNCHANGED repoVars
    /\ UNCHANGED uiVars

CompleteTask ==
    /\ nops < MaxOps
    /\ \E i \in DOMAIN tasks, n1 \in Now(clock) : \E n2 \in Now(n1) :
         /\ tasks' = add_task(tasks, complete_task(tasks[i], now_iso(n1), now_iso(n2)))
         /\ clock' = n2
    /\ nops' = nops + 1
    /\ UNCHANGED << input, views, projects, tags, call >>
    /\ UNCHANGED repoVars
    /\ UNCHANGED uiVars

UncompleteTask ==
    /\ nops < MaxOps
    /\ \E i \in DOMAIN tasks, n \in Now(clock) :
         /\ tasks' = add_task(tasks, uncomplete_task(tasks[i], now_iso(n)))
         /\ clock' = n
    /\ nops' = nops + 1
    /\ UNCHANGED << input, views, projects, tags, call >>
    /\ UNCHANGED repoVars
    /\ UNCHANGED uiVars

ToggleCompleted ==
    /\ nops < MaxOps
    /\ \E i \in DOMAIN tasks, n1 \in Now(clock) : \E n2 \in Now(n1) :
         /\ tasks' = add_task(tasks, toggle_completed(tasks[i], now_iso(n1), now_iso(n2)))
         /\ clock' = n2
    /\ nops' = nops + 1
    /\ UNCHANGED << input, views, projects, tags, call >>
    /\ UNCHANGED repoVars
    /\ UNCHANGED uiVars

DeleteTask ==
    /\ nops < MaxOps
    /\ \E i \in DOMAIN tasks, n \in Now(clock) :
         /\ tasks' = add_task(tasks, delete_task(tasks[i], now_iso(n)))
         /\ clock' = n
    /\ nops' = nops + 1
    /\ UNCHANGED << input, views, projects, tags, call >>
    /\ UNCHANGED repoVars
    /\ UNCHANGED uiVars

Next ==
    \/ CreateTask
    \/ UpdateTask
    \/ CompleteTask
    \/ UncompleteTask
    \/ ToggleCompleted
    \/ DeleteTask

Spec == Init /\ [][Next]_vars

\* ------------------------------------------------------------------------
\* Specification SpecViews: the view functions applied to a task list
\* ------------------------------------------------------------------------
ViewStatuses == TaskStatus
ViewDueDates == {NoneVal, TwoDaysAgo, Yesterday, Today, TodayNoon, Tomorrow}
ViewStartDates == {NoneVal, Today, Tomorrow}
ViewOrderIndexes == {0, 1}

\* the tasks with a given id that are handed to the view functions
ViewTasks(id) ==
    { [ Task(id, "a", now_iso(0), now_iso(0)) EXCEPT
          !.status = st, !.due_date = due, !.start_date = start,
          !.deleted = del, !.order_index = oi ] :
        st \in ViewStatuses, due \in ViewDueDates, start \in ViewStartDates,
        del \in BOOLEAN, oi \in ViewOrderIndexes }

\* the task lists handed to the view functions: distinct ids, up to two tasks
ViewInputs ==
    {<<>>} \cup { <<a>> : a \in ViewTasks("t1") }
           \cup { <<a, b>> : a \in ViewTasks("t1"), b \in ViewTasks("t2") }

InitViews ==
    /\ tasks = <<>>
    /\ clock = 0
    /\ nops = 0
    /\ input \in ViewInputs
    /\ views = NoViews
    /\ projects = <<>>
    /\ tags = <<>>
    /\ call = NoCall
    /\ RepoIdle
    /\ UiIdle

\* _refresh_task_list / _get_task_counts: every view is computed for the list
Render ==
    /\ ~views.rendered
    /\ views' = ComputeViews(input)
    /\ UNCHANGED << tasks, clock, nops, input, projects, tags, call >>
    /\ UNCHANGED repoVars
    /\ UNCHANGED uiVars

NextViews == Render

SpecViews == InitViews /\ [][NextViews]_vars

\* ------------------------------------------------------------------------
\* Specification SpecRepo: save_snapshot, get_snapshot, _load_from_tables and
\* close called one after the other on a database file as it is found
\* ------------------------------------------------------------------------
TaskA == Task("t1", "a", now_iso(0), now_iso(0))

\* a task with every optional field set
TaskB ==
    [ Task("t1", "b", now_iso(0), now_iso(1)) EXCEPT
        !.notes = "xa", !.due_date = Today, !.start_date = Tomorrow,
        !.completed_at = now_iso(1), !.project_id = "p1", !.section_id = "s1",
        !.priority = "high", !.tags = <<"g1">>, !.status = "completed",
        !.repeat_rule = "daily", !.order_index = 1, !.deleted = TRUE,
        !.kind = "bug", !.size = "m", !.assignee = "me",
        !.context_url = "http://x", !.metadata = {<< "k", "v" >>} ]

\* a subtask of t1
TaskC == [ Task("t2", "a", now_iso(1), now_iso(1)) EXCEPT !.parent_task_id = "t1" ]

ProjectA ==
    [ id |-> "p1", name |-> "P", description |-> NoneVal, color |-> NoneVal,
      icon |-> NoneVal, order_index |-> 0, is_inbox |-> FALSE,
      created_at |-> now_iso(0), updated_at |-> now_iso(0), deleted |-> FALSE ]

ProjectB ==
    [ ProjectA EXCEPT !.description = "d", !.color = "red", !.icon = "i",
                      !.order_index = 1, !.is_inbox = TRUE, !.deleted = TRUE,
                      !.updated_at = now_iso(1) ]

SectionA ==
    [ id |-> "s1", project_id |-> "p1", name |-> "S", order_index |-> 1,
      created_at |-> now_iso(0), updated_at |-> now_iso(1), deleted |-> FALSE ]

TagA ==
    [ id |-> "g1", name |-> "G", color |-> "red", created_at |-> now_iso(0),
      updated_at |-> now_iso(1), deleted |-> FALSE ]

ReminderA ==
    [ id |-> "r1", task_id |-> "t1", at |-> Tomorrow, created_at |-> now_iso(0),
      updated_at |-> now_iso(1), cancelled_at |-> now_iso(1), deleted |-> TRUE ]

SnapMin == StateSnapshot(<< TaskA >>, <<>>, <<>>, <<>>, <<>>, 1)
SnapRefs == StateSnapshot(<<>>, << ProjectA >>, << SectionA >>, << TagA >>, <<>>, 1)
SnapFull ==
    StateSnapshot(<< TaskB, TaskC >>, << ProjectB >>, << SectionA >>, << TagA >>,
                  << ReminderA >>, 2)
SnapTagged ==
    StateSnapshot(<< [TaskA EXCEPT !.tags = <<"g1">>] >>, <<>>, <<>>, << TagA >>, <<>>, 1)
SnapReminder == StateSnapshot(<< TaskA >>, <<>>, <<>>, <<>>, << ReminderA >>, 1)

\* the arguments save_snapshot is called with
Snapshots == { EmptySnapshot, SnapMin, SnapRefs, SnapFull, SnapTagged, SnapReminder }

\* parsed JSON values that are not objects
JsonNull == [jsontype |-> "null"]
JsonArray == [jsontype |-> "array"]

\* the metadata row 'snapshot' of the database file the repository opens:
\* no row, NULL, '', text that is not JSON, JSON null, a JSON array, a task
\* without title, a task with an unknown status, an object without entity
\* maps, and the text of a snapshot
FoundBlobs ==
    { NoRow, SqlNull, EmptyText, GarbageText,
      json_dumps(JsonNull), json_dumps(JsonArray),
      json_dumps([tasks |-> << [id |-> "t1"] >>]),
      json_dumps([tasks |-> << [id |-> "t1", title |-> "a", status |-> "bogus"] >>]),
      json_dumps([version |-> 2]),
      json_dumps(StateSnapshot_to_dict(SnapMin)) }

\* init_db (CREATE TABLE IF NOT EXISTS) on the file as it is found
InitRepo ==
    /\ tasks = <<>>
    /\ clock = 0
    /\ nops = 0
    /\ input = <<>>
    /\ views = NoViews
    /\ projects = <<>>
    /\ tags = <<>>
    /\ call = NoCall
    /\ \E b \in FoundBlobs : disk = [EmptyDb EXCEPT !.blob = b]
    /\ conn = disk
    /\ last_saved = NoSave
    /\ loaded = NoLoad
    /\ saves = [w \in SaveWorkers |-> Idle]
    /\ UiIdle

\* await repository.save_snapshot(snapshot), run to its end: the statements
\* until one raises, then the commit
SaveSnapshot ==
    /\ \E snapshot \in Snapshots :
         LET run == RunStatements(conn, Statements(snapshot))
         IN /\ conn' = run.db
            /\ disk' = IF run.raised = "" THEN run.db ELSE disk
            /\ last_saved' = [saved |-> TRUE, snap |-> snapshot,
                              raised |-> run.raised, closed |-> FALSE]
    /\ loaded' = NoLoad
    /\ UNCHANGED appVars
    /\ UNCHANGED saves
    /\ UNCHANGED uiVars

\* await repository.get_snapshot()
GetSnapshot ==
    /\ loaded' = [op |-> "get_snapshot"] @@ get_snapshot(conn)
    /\ UNCHANGED appVars
    /\ UNCHANGED << disk, conn, last_saved, saves >>
    /\ UNCHANGED uiVars

\* await repository._load_from_tables()
LoadFromTables ==
    /\ loaded' = [op |-> "tables", raised |-> "", via |-> "tables",
                  snap |-> _load_from_tables(conn)]
    /\ UNCHANGED appVars
    /\ UNCHANGED << disk, conn, last_saved, saves >>
    /\ UNCHANGED uiVars

\* await repository.close(): the open transaction is rolled back and the next
\* call connects again
Close ==
    /\ conn' = disk
    /\ last_saved' = IF last_saved.saved THEN [last_saved EXCEPT !.closed = TRUE]
                     ELSE last_saved
    /\ loaded' = NoLoad
    /\ UNCHANGED appVars
    /\ UNCHANGED << disk, saves >>
    /\ UNCHANGED uiVars

NextRepo ==
    \/ SaveSnapshot
    \/ GetSnapshot
    \/ LoadFromTables
    \/ Close

SpecRepo == InitRepo /\ [][NextRepo]_vars

\* ------------------------------------------------------------------------
\* Specification SpecSave: PhitodoApp._save_state started as a worker after
\* each edit; the workers' statements interleave on the one connection
\* ------------------------------------------------------------------------
\* AppState.to_snapshot
to_snapshot(ts, prjs, tgs) == StateSnapshot(ts, prjs, <<>>, tgs, <<>>, 1)

\* the snapshots of the application state after successive edits: a new task,
\* the task completed, a new project, the task moved to the project
AppSnapshots ==
    { to_snapshot(<< TaskA >>, <<>>, <<>>),
      to_snapshot(<< complete_task(TaskA, now_iso(1), now_iso(1)) >>, <<>>, <<>>),
      to_snapshot(<< TaskA >>, << ProjectA >>, <<>>),
      to_snapshot(<< update_task(TaskA, [project_id |-> "p1"], now_iso(1)) >>,
                  << ProjectA >>, <<>>) }

\* run_worker(self._save_state()): the coroutine is scheduled with the
\* snapshot of the current state
StartSave(w) ==
    /\ saves[w] = Idle
    /\ \E snapshot \in AppSnapshots :
         saves' = [saves EXCEPT ![w] = [pc |-> 1, snap |-> snapshot]]
    /\ UNCHANGED appVars
    /\ UNCHANGED << disk, conn, last_saved, loaded >>
    /\ UNCHANGED uiVars

\* the coroutine is resumed for its next 'await conn.execute(...)'; an
\* IntegrityError ends it, nothing is rolled back
ExecuteStatement(w) ==
    /\ saves[w] # Idle
    /\ saves[w].pc <= Len(Statements(saves[w].snap))
    /\ LET st == Statements(saves[w].snap)[saves[w].pc]
       IN IF ForeignKeyFails(conn, st)
          THEN /\ saves' = [saves EXCEPT ![w] = Idle]
               /\ UNCHANGED conn
          ELSE /\ saves' = [saves EXCEPT ![w].pc = @ + 1]
               /\ conn' = Execute(conn, st)
    /\ UNCHANGED appVars
    /\ UNCHANGED << disk, last_saved, loaded >>
    /\ UNCHANGED uiVars

\* 'await conn.commit()': whatever the connection holds becomes durable
Commit(w) ==
    /\ saves[w] # Idle
    /\ saves[w].pc = Len(Statements(saves[w].snap)) + 1
    /\ disk' = conn
    /\ saves' = [saves EXCEPT ![w] = Idle]
    /\ UNCHANGED appVars
    /\ UNCHANGED << conn, last_saved, loaded >>
    /\ UNCHANGED uiVars

NextSave ==
    \E w \in SaveWorkers :
        \/ StartSave(w)
        \/ ExecuteStatement(w)
        \/ Commit(w)

SpecSave == Init /\ [][NextSave]_vars

\* ------------------------------------------------------------------------
\* Specification SpecState: the AppState maps under the AppState operations
\* and the application's create, edit, toggle and delete actions
\* ------------------------------------------------------------------------
StateTasks == {TaskA, TaskB, [TaskA EXCEPT !.id = "t2"]}
StateProjects == {ProjectA, ProjectB, [ProjectA EXCEPT !.id = "p2"]}
StateTags == {TagA, [TagA EXCEPT !.id = "g2", !.deleted = TRUE]}

\* AppState.add_task, also the handler of action_new_task and action_edit_task
StateAddTask ==
    /\ nops < MaxOps
    /\ \E task \in StateTasks : tasks' = add_task(tasks, task)
    /\ nops' = nops + 1
    /\ UNCHANGED << clock, input, views, projects, tags, call >>
    /\ UNCHANGED repoVars
    /\ UNCHANGED uiVars

StateRemoveTask ==
    /\ nops < MaxOps
    /\ \E task_id \in TaskIds : tasks' = remove_task(tasks, task_id)
    /\ nops' = nops + 1
    /\ UNCHANGED << clock, input, views, projects, tags, call >>
    /\ UNCHANGED repoVars
    /\ UNCHANGED uiVars

\* AppState.add_project, also the handler of action_new_project
StateAddProject ==
    /\ nops < MaxOps
    /\ \E project \in StateProjects : projects' = add_project(projects, project)
    /\ nops' = nops + 1
    /\ UNCHANGED << tasks, clock, input, views, tags, call >>
    /\ UNCHANGED repoVars
    /\ UNCHANGED uiVars

StateRemoveProject ==
    /\ nops < MaxOps
    /\ \E project_id \in {"p1", "p2"} :
         projects' = remove_project(projects, project_id)
    /\ nops' = nops + 1
    /\ UNCHANGED << tasks, clock, input, views, tags, call >>
    /\ UNCHANGED repoVars
    /\ UNCHANGED uiVars

StateAddTag ==
    /\ nops < MaxOps
    /\ \E tag \in StateTags : tags' = add_tag(tags, tag)
    /\ nops' = nops + 1
    /\ UNCHANGED << tasks, clock, input, views, projects, call >>
    /\ UNCHANGED repoVars
    /\ UNCHANGED uiVars

StateRemoveTag ==
    /\ nops < MaxOps
    /\ \E tag_id \in {"g1", "g2"} : tags' = remove_tag(tags, tag_id)
    /\ nops' = nops + 1
    /\ UNCHANGED << tasks, clock, input, views, projects, call >>
    /\ UNCHANGED repoVars
    /\ UNCHANGED uiVars

\* AppState.to_snapshot(): call keeps the last snapshot taken
StateToSnapshot ==
    /\ call' = [fn |-> "to_snapshot", snapshot |-> to_snapshot(tasks, projects, tags)]
    /\ call' # call
    /\ UNCHANGED << tasks, clock, nops, input, views, projects, tags >>
    /\ UNCHANGED repoVars
    /\ UNCHANGED uiVars

\* action_new_task and action_edit_task hand the modal's task to add_task
\* (StateAddTask); action_toggle_complete and action_delete_task are
\* ToggleCompleted and DeleteTask of Spec
NextState ==
    \/ StateAddTask
    \/ StateRemoveTask
    \/ StateAddProject
    \/ StateRemoveProject
    \/ StateAddTag
    \/ StateRemoveTag
    \/ StateToSnapshot
    \/ ToggleCompleted
    \/ DeleteTask

SpecState == Init /\ [][NextState]_vars

\* ------------------------------------------------------------------------
\* Specification SpecOrder: tasks inserted into a list ordered by order_index,
\* their indexes taken from get_order_index_between and get_next_order_index
\* ------------------------------------------------------------------------
OrderIds == <<"t1", "t2", "t3", "t4", "t5", "t6", "t7">>

OrderTask(n, oi) ==
    [ Task(OrderIds[n], "a", now_iso(0), now_iso(0)) EXCEPT !.order_index = oi ]

\* the order indexes of the tasks present at the start: the default 0.0,
\* whole numbers, a negative one and a fraction
StartIndexes == {<< -2, 1 >>, << 0, 1 >>, << 1, 2 >>, << 1, 1 >>, << 2, 1 >>}

\* no task, one task, or two tasks in ascending order
StartLists ==
    {<< >>} \cup {<< OrderTask(1, x) >> : x \in StartIndexes}
        \cup {<< OrderTask(1, p[1]), OrderTask(2, p[2]) >> :
                p \in {q \in StartIndexes \X StartIndexes : FloatLess(q[1], q[2])}}

InitOrder ==
    /\ tasks \in StartLists
    /\ clock = 0
    /\ nops = 0
    /\ input = <<>>
    /\ views = NoViews
    /\ projects = <<>>
    /\ tags = <<>>
    /\ call = NoCall
    /\ RepoIdle
    /\ UiIdle

\* a task is placed after the first i tasks of the list, its order_index
\* being get_order_index_between(the task before it, the task after it)
InsertBetween ==
    /\ nops < MaxOps
    /\ Len(tasks) < Len(OrderIds)
    /\ \E i \in 0..Len(tasks) :
         LET before == IF i = 0 THEN << >> ELSE << tasks[i] >>
             after == IF i = Len(tasks) THEN << >> ELSE << tasks[i + 1] >>
             index == get_order_index_between(before, after)
             task == OrderTask(Len(tasks) + 1, index)
         IN /\ tasks' = SubSeq(tasks, 1, i) \o << task >>
                            \o SubSeq(tasks, i + 1, Len(tasks))
            /\ call' = [fn |-> "get_order_index_between", before |-> before,
                        after |-> after, result |-> index]
    /\ nops' = nops + 1
    /\ UNCHANGED << clock, input, views, projects, tags >>
    /\ UNCHANGED repoVars
    /\ UNCHANGED uiVars

\* a task is appended with order_index get_next_order_index(tasks)
AppendLast ==
    /\ nops < MaxOps
    /\ Len(tasks) < Len(OrderIds)
    /\ LET index == get_next_order_index(tasks)
       IN /\ tasks' = Append(tasks, OrderTask(Len(tasks) + 1, index))
          /\ call' = [fn |-> "get_next_order_index", tasks |-> tasks,
                      result |-> index]
    /\ nops' = nops + 1
    /\ UNCHANGED << clock, input, views, projects, tags >>
    /\ UNCHANGED repoVars
    /\ UNCHANGED uiVars

NextOrder ==
    \/ InsertBetween
    \/ AppendLast

SpecOrder == InitOrder /\ [][NextOrder]_vars

\* ------------------------------------------------------------------------
\* Specification SpecCalls: one call of a function of the task service or of
\* the filters, with its arguments drawn from the sets below
\* ------------------------------------------------------------------------
CallTaskIds == <<"t1", "t2", "t3">>

\* the tasks handed to get_completed_tasks under a given id
CompletedTasks(id) ==
    { [ Task(id, "a", now_iso(0), now_iso(0)) EXCEPT
          !.status = st, !.deleted = del, !.completed_at = at ] :
        st \in {"completed", "active"}, del \in BOOLEAN,
        at \in {NoneVal, now_iso(0), now_iso(1), now_iso(2)} }

\* task lists with distinct ids, up to three tasks
CompletedInputs ==
    {<<>>} \cup { <<a>> : a \in CompletedTasks(CallTaskIds[1]) }
           \cup { <<a, b>> : a \in CompletedTasks(CallTaskIds[1]),
                             b \in CompletedTasks(CallTaskIds[2]) }
           \cup { <<a, b, c>> : a \in CompletedTasks(CallTaskIds[1]),
                                b \in CompletedTasks(CallTaskIds[2]),
                                c \in CompletedTasks(CallTaskIds[3]) }

\* the values of the limit argument: none, fewer than the tasks, the default
Limits == {0, 1, 2, DefaultLimit}

InitCalls == Init

\* get_completed_tasks(tasks, limit)
CallGetCompletedTasks ==
    /\ call = NoCall
    /\ \E ts \in CompletedInputs, limit \in Limits :
         call' = [fn |-> "get_completed_tasks", tasks |-> ts, limit |-> limit,
                  completed |-> get_completed_tasks(ts, limit)]
    /\ UNCHANGED << tasks, clock, nops, input, views, projects, tags >>
    /\ UNCHANGED repoVars
    /\ UNCHANGED uiVars

\* the tasks handed to the views sorted by order index under a given id
OrderedTasks(id) ==
    { [ Task(id, "a", now_iso(0), now_iso(0)) EXCEPT
          !.status = st, !.deleted = del, !.due_date = dates[1],
          !.start_date = dates[2], !.project_id = p, !.tags = tgs,
          !.order_index = oi ] :
        st \in TaskStatus, del \in BOOLEAN,
        dates \in { << NoneVal, NoneVal >>, << Today, NoneVal >>, << NoneVal, Tomorrow >> },
        p \in {NoneVal, "p1"}, tgs \in { <<>>, <<"g2">>, <<"g2", "g1">> },
        oi \in {0, 1} }

\* task lists with distinct ids, up to two tasks
OrderedInputs ==
    {<<>>} \cup { <<a>> : a \in OrderedTasks(CallTaskIds[1]) }
           \cup { <<a, b>> : a \in OrderedTasks(CallTaskIds[1]),
                             b \in OrderedTasks(CallTaskIds[2]) }

\* get_inbox_tasks(tasks), get_anytime_tasks(tasks),
\* get_project_tasks(tasks, "p1") and get_tag_tasks(tasks, "g1")
CallOrderIndexViews ==
    /\ call = NoCall
    /\ \E ts \in OrderedInputs :
         call' = [fn |-> "order_index_views", tasks |-> ts,
                  project_id |-> "p1", tag_id |-> "g1",
                  inbox |-> get_inbox_tasks(ts),
                  anytime |-> get_anytime_tasks(ts),
                  project |-> get_project_tasks(ts, "p1"),
                  tag |-> get_tag_tasks(ts, "g1")]
    /\ UNCHANGED << tasks, clock, nops, input, views, projects, tags >>
    /\ UNCHANGED repoVars
    /\ UNCHANGED uiVars

\* the tasks handed to the mutation service: a task with the defaults and one
\* with every optional field set, last updated at instant 0 or 1
ServiceTasks ==
    { [ base EXCEPT !.status = st, !.completed_at = at, !.deleted = del,
                    !.updated_at = now_iso(u) ] :
        base \in {TaskA, TaskB}, st \in {"inbox", "active", "completed"},
        at \in {NoneVal, now_iso(0)}, del \in BOOLEAN, u \in {0, 1} }

\* the instant of a timestamp
InstantOf(s) == (CHOOSE n \in DOMAIN Instants : Instants[n] = s) - 1

MutationOps == {"complete_task", "uncomplete_task", "toggle_completed", "delete_task"}

ApplyMutation(op, task, now1, now2) ==
    CASE op = "complete_task" -> complete_task(task, now1, now2)
      [] op = "uncomplete_task" -> uncomplete_task(task, now2)
      [] op = "toggle_completed" -> toggle_completed(task, now1, now2)
      [] op = "delete_task" -> delete_task(task, now2)

\* TaskService.complete_task(task), uncomplete_task(task),
\* toggle_completed(task) or delete_task(task), called when the clock is at or
\* after the instant of the task's last update
CallMutation(op) ==
    /\ call = NoCall
    /\ \E task \in ServiceTasks :
         \E n1 \in Now(InstantOf(task.updated_at)) : \E n2 \in Now(n1) :
            call' = [fn |-> "mutation", op |-> op, task |-> task,
                     now |-> now_iso(n2),
                     result |-> ApplyMutation(op, task, now_iso(n1), now_iso(n2))]
    /\ UNCHANGED << tasks, clock, nops, input, views, projects, tags >>
    /\ UNCHANGED repoVars
    /\ UNCHANGED uiVars

\* TaskService.toggle_completed(TaskService.toggle_completed(task))
CallToggleTwice ==
    /\ call = NoCall
    /\ \E task \in ServiceTasks :
         \E n1 \in Now(InstantOf(task.updated_at)) : \E n2 \in Now(n1) :
         \E n3 \in Now(n2) : \E n4 \in Now(n3) :
            LET once == toggle_completed(task, now_iso(n1), now_iso(n2))
            IN call' = [fn |-> "toggle_twice", task |-> task, once |-> once,
                        twice |-> toggle_completed(once, now_iso(n3), now_iso(n4))]
    /\ UNCHANGED << tasks, clock, nops, input, views, projects, tags >>
    /\ UNCHANGED repoVars
    /\ UNCHANGED uiVars

\* the keyword arguments of update_task: those of the edit action, two fields
\* at once, a dict key as the name, and updated_at itself
CallUpdates ==
    Updates \cup
    { [title |-> "b", priority |-> "high"], [dueDate |-> Tomorrow],
      [updated_at |-> now_iso(0)], [kind |-> "bug"], [kind |-> NoneVal],
      [order_index |-> 1], [metadata |-> {<< "k", "w" >>}], [notes |-> NoneVal] }

\* TaskService.update_task(task, **updates)
CallUpdateTask ==
    /\ call = NoCall
    /\ \E task \in ServiceTasks, updates \in CallUpdates :
         \E n \in Now(InstantOf(task.updated_at)) :
            call' = [fn |-> "update_task", task |-> task, updates |-> updates,
                     now |-> now_iso(n),
                     result |-> update_task(task, updates, now_iso(n))]
    /\ UNCHANGED << tasks, clock, nops, input, views, projects, tags >>
    /\ UNCHANGED repoVars
    /\ UNCHANGED uiVars

\* AppState.remove_task(task.id) on a state that holds the task
CallRemoveTask ==
    /\ call = NoCall
    /\ \E task \in ServiceTasks :
         \E n \in Now(InstantOf(task.updated_at)) :
            call' = [fn |-> "remove_task", task |-> task, now |-> now_iso(n),
                     result |-> remove_task(<< task >>, task.id)[1]]
    /\ UNCHANGED << tasks, clock, nops, input, views, projects, tags >>
    /\ UNCHANGED repoVars
    /\ UNCHANGED uiVars

NextCalls ==
    \/ CallGetCompletedTasks
    \/ CallOrderIndexViews
    \/ \E op \in MutationOps : CallMutation(op)
    \/ CallToggleTwice
    \/ CallUpdateTask
    \/ CallRemoveTask

SpecCalls == InitCalls /\ [][NextCalls]_vars

\* ------------------------------------------------------------------------
\* Specification SpecModels: one entity serialised with to_dict and rebuilt
\* with from_dict
\* ------------------------------------------------------------------------
EntityClasses == {"Task", "Project", "Section", "Tag", "Reminder", "StateSnapshot"}

\* entities with every optional field absent, with every optional field set,
\* and in between
EntitiesOf(cls) ==
    CASE cls = "Task" -> ServiceTasks \cup {TaskC}
      [] cls = "Project" ->
           { [ base EXCEPT !.deleted = del, !.icon = icon ] :
               base \in {ProjectA, ProjectB}, del \in BOOLEAN, icon \in {NoneVal, "i"} }
      [] cls = "Section" ->
           { [ SectionA EXCEPT !.deleted = del, !.order_index = oi ] :
               del \in BOOLEAN, oi \in {0, 1} }
      [] cls = "Tag" ->
           { [ TagA EXCEPT !.deleted = del, !.color = color ] :
               del \in BOOLEAN, color \in {NoneVal, "red"} }
      [] cls = "Reminder" ->
           { [ ReminderA EXCEPT !.deleted = del, !.cancelled_at = at ] :
               del \in BOOLEAN, at \in {NoneVal, now_iso(1)} }
      [] cls = "StateSnapshot" ->
           { StateSnapshot(ts, prjs, ss, tgs, rs, version) :
               ts \in {<<>>, << TaskA >>, << TaskB, TaskC >>},
               prjs \in {<<>>, << ProjectB, [ProjectA EXCEPT !.id = "p2"] >>},
               ss \in {<<>>, << SectionA >>}, tgs \in {<<>>, << TagA >>},
               rs \in {<<>>, << ReminderA >>}, version \in {1, 2} }

\* cls.to_dict(self)
To_dict(cls, self) ==
    CASE cls = "Task" -> Task_to_dict(self)
      [] cls = "Project" -> Project_to_dict(self)
      [] cls = "Section" -> Section_to_dict(self)
      [] cls = "Tag" -> Tag_to_dict(self)
      [] cls = "Reminder" -> Reminder_to_dict(self)
      [] cls = "StateSnapshot" -> StateSnapshot_to_dict(self)

\* cls.from_dict(data)
From_dict(cls, data) ==
    CASE cls = "Task" -> Task_from_dict(data)
      [] cls = "Project" -> Project_from_dict(data)
      [] cls = "Section" -> Section_from_dict(data)
      [] cls = "Tag" -> Tag_from_dict(data)
      [] cls = "Reminder" -> Reminder_from_dict(data)
      [] cls = "StateSnapshot" -> StateSnapshot_from_dict(data)

\* cls.from_dict(entity.to_dict())
RoundTrip(cls) ==
    /\ call = NoCall
    /\ \E entity \in EntitiesOf(cls) :
         LET data == To_dict(cls, entity)
         IN call' = [fn |-> "round_trip", cls |-> cls, entity |-> entity,
                     data |-> data, result |-> From_dict(cls, data)]
    /\ UNCHANGED << tasks, clock, nops, input, views, projects, tags >>
    /\ UNCHANGED repoVars
    /\ UNCHANGED uiVars

NextModels == \E cls \in EntityClasses : RoundTrip(cls)

SpecModels == Init /\ [][NextModels]_vars

\* ------------------------------------------------------------------------
\* Specification SpecFilter: filter_tasks and search_tasks applied to a task
\* list under a ViewCriteria
\* ------------------------------------------------------------------------
FilterTaskB == [ TaskB EXCEPT !.deleted = FALSE ]

\* tasks that differ in every field a criterion reads
FilterTasks ==
    { TaskA,
      TaskB,
      FilterTaskB,
      [ FilterTaskB EXCEPT !.status = "active", !.due_date = TodayNoon,
                           !.title = "Ab", !.notes = NoneVal ],
      [ TaskA EXCEPT !.due_date = Yesterday, !.start_date = Today,
                     !.tags = <<"g2", "g1">>, !.title = "ab", !.notes = "XA",
                     !.assignee = "you", !.project_id = "p2", !.priority = "low",
                     !.kind = "task", !.size = "s" ],
      [ TaskA EXCEPT !.deleted = TRUE, !.title = "Ab" ],
      [ FilterTaskB EXCEPT !.due_date = Tomorrow, !.start_date = Today,
                           !.kind = "feature", !.tags = <<"g2">> ] }

\* lists of no task, one task, and some of two and three tasks
FilterInputs ==
    {<< >>} \cup {<< t >> : t \in FilterTasks}
        \cup {<< [t EXCEPT !.id = "t2"], FilterTaskB, TaskA >> : t \in FilterTasks}

\* ViewCriteria(...): each criterion left at its default or supplied
FilterCriteria ==
    { [ statuses |-> st, project_ids |-> pr, tag_ids |-> tg, priorities |-> pri,
        kinds |-> kd, sizes |-> sz, assignee |-> asg,
        due_date_start |-> due[1], due_date_end |-> due[2],
        start_date_start |-> start[1], start_date_end |-> start[2],
        include_deleted |-> incl, search_query |-> q ] :
        st \in {{}, {"active", "completed"}}, pr \in {{}, {"p1"}},
        tg \in {{}, {"g1", "g3"}}, pri \in {{}, {"high"}}, kd \in {{}, {"bug"}},
        sz \in {{}, {"m"}}, asg \in {NoneVal, "me"},
        due \in {<< NoneVal, NoneVal >>, << Today, NoneVal >>,
                 << NoneVal, Today >>, << Yesterday, Today >>},
        start \in {<< NoneVal, NoneVal >>, << Tomorrow, Tomorrow >>},
        incl \in BOOLEAN, q \in {NoneVal, "XA", "b"} }

\* the queries handed to search_tasks
SearchQueries == {"a", "Ab", "XA", "b", "", NoneVal}

CallFilterTasks ==
    /\ call = NoCall
    /\ \E ts \in FilterInputs, criteria \in FilterCriteria :
         call' = [fn |-> "filter_tasks", tasks |-> ts, criteria |-> criteria,
                  result |-> filter_tasks(ts, criteria)]
    /\ UNCHANGED << tasks, clock, nops, input, views, projects, tags >>
    /\ UNCHANGED repoVars
    /\ UNCHANGED uiVars

CallSearchTasks ==
    /\ call = NoCall
    /\ \E ts \in FilterInputs, query \in SearchQueries :
         call' = [fn |-> "search_tasks", tasks |-> ts, query |-> query,
                  result |-> search_tasks(ts, query)]
    /\ UNCHANGED << tasks, clock, nops, input, views, projects, tags >>
    /\ UNCHANGED repoVars
    /\ UNCHANGED uiVars

NextFilter ==
    \/ CallFilterTasks
    \/ CallSearchTasks

SpecFilter == Init /\ [][NextFilter]_vars

\* ------------------------------------------------------------------------
\* Specification SpecToggl: the Toggl totals of one list of fetched entries
\* ------------------------------------------------------------------------
\* a running timer (negative duration), an empty entry and finished entries,
\* started yesterday or today, with or without a project
TogglEntries ==
    { TogglTimeEntry(1, duration, start, project_name) :
        duration \in {-1, 0, 900, 3600},
        start \in {Yesterday, Today, TodayNoon},
        project_name \in {NoneVal, "P"} }

\* the lists get_time_entries returns
TogglInputs ==
    {<< >>} \cup {<< a >> : a \in TogglEntries}
        \cup {<< a, [b EXCEPT !.id = 2] >> : a \in TogglEntries, b \in TogglEntries}

\* the seconds a running timer has run when its duration_hours is read
ElapsedSeconds == {900, 2700}

CallTogglTotals ==
    /\ call = NoCall
    /\ \E entries \in TogglInputs, elapsed \in ElapsedSeconds :
         call' = [fn |-> "toggl_totals", entries |-> entries,
                  by_day |-> get_duration_by_day(entries, elapsed),
                  by_project |-> get_duration_by_project(entries, elapsed),
                  standup |-> standup_total(entries, elapsed)]
    /\ UNCHANGED << tasks, clock, nops, input, views, projects, tags >>
    /\ UNCHANGED repoVars
    /\ UNCHANGED uiVars

NextToggl == CallTogglTotals

SpecToggl == Init /\ [][NextToggl]_vars

\* ------------------------------------------------------------------------
\* Specification SpecEdits: app.py edit handlers, each followed by
\* run_worker(self._save_state()). The workers are not exclusive and share
\* the repository's one connection, whose thread runs the submitted
\* statements first in, first out: a save started later runs its statement
\* number j only after every earlier save still in flight has run its own
\* statement number j.
\* ------------------------------------------------------------------------
\* self.run_worker(self._save_state()) on worker slot w: to_snapshot() of the
\* state the handler leaves, 'started' being the order of the starts
StartSaveOf(w, ts, prjs, tgs, started) ==
    /\ saves[w] = Idle
    /\ saves' = [saves EXCEPT ![w] = [pc |-> 1, snap |-> to_snapshot(ts, prjs, tgs),
                                      started |-> started]]

\* action_new_task, handle_task_result with the dismissed modal's task
EditNewTask(w) ==
    /\ nops < MaxOps
    /\ ~HasId(Range(tasks), "t1")
    /\ \E n \in Now(clock), project_id \in {NoneVal} \cup Ids(projects) :
         /\ tasks' = add_task(tasks,
                       [ create_task("t1", "a", NoneVal, "inbox", now_iso(n))
                           EXCEPT !.project_id = project_id ])
         /\ clock' = n
    /\ nops' = nops + 1
    /\ StartSaveOf(w, tasks', projects, tags, nops')
    /\ UNCHANGED << input, views, projects, tags, call >>
    /\ UNCHANGED << disk, conn, last_saved, loaded >>
    /\ UNCHANGED uiVars

\* action_new_project, handle_project_result
EditNewProject(w) ==
    /\ nops < MaxOps
    /\ ~HasId(Range(projects), ProjectA.id)
    /\ projects' = add_project(projects, ProjectA)
    /\ nops' = nops + 1
    /\ StartSaveOf(w, tasks, projects', tags, nops')
    /\ UNCHANGED << tasks, clock, input, views, tags, call >>
    /\ UNCHANGED << disk, conn, last_saved, loaded >>
    /\ UNCHANGED uiVars

\* action_edit_task, handle_edit_result: the modal's project select
EditTask(w) ==
    /\ nops < MaxOps
    /\ \E i \in DOMAIN tasks, n \in Now(clock),
          project_id \in {NoneVal} \cup Ids(projects) :
         /\ tasks' = add_task(tasks,
                       update_task(tasks[i], [project_id |-> project_id], now_iso(n)))
         /\ clock' = n
    /\ nops' = nops + 1
    /\ StartSaveOf(w, tasks', projects, tags, nops')
    /\ UNCHANGED << input, views, projects, tags, call >>
    /\ UNCHANGED << disk, conn, last_saved, loaded >>
    /\ UNCHANGED uiVars

\* action_toggle_complete
EditToggleComplete(w) ==
    /\ nops < MaxOps
    /\ \E i \in DOMAIN tasks, n \in Now(clock) :
         /\ tasks' = add_task(tasks,
                       toggle_completed(tasks[i], now_iso(n), now_iso(n)))
         /\ clock' = n
    /\ nops' = nops + 1
    /\ StartSaveOf(w, tasks', projects, tags, nops')
    /\ UNCHANGED << input, views, projects, tags, call >>
    /\ UNCHANGED << disk, conn, last_saved, loaded >>
    /\ UNCHANGED uiVars

\* the connection thread's queue: every save started before w and still in
\* flight is past the statement w is about to run
FirstInFirstOut(w) ==
    /\ saves[w] # Idle
    /\ \A v \in SaveWorkers \ {w} :
          (saves[v] # Idle /\ saves[v].started < saves[w].started)
             => saves[v].pc > saves[w].pc

SaveExecute(w) == FirstInFirstOut(w) /\ ExecuteStatement(w)

SaveCommit(w) == FirstInFirstOut(w) /\ Commit(w)

NextEdits ==
    \E w \in SaveWorkers :
        \/ EditNewTask(w)
        \/ EditNewProject(w)
        \/ EditTask(w)
        \/ EditToggleComplete(w)
        \/ SaveExecute(w)
        \/ SaveCommit(w)

SpecEdits == Init /\ [][NextEdits]_vars

\* ------------------------------------------------------------------------
\* Specification SpecFetch: app.py, the GitHub and Toggl fetch workers
\* started by action_view_github, action_view_toggl and action_refresh; the
\* workers are not exclusive, so fetches of one service can overlap
\* ------------------------------------------------------------------------
Services == {"github", "toggl"}

\* what the service answers to its k-th fetch (an item is its number)
GitHubResponse(k) ==
    [ assigned_issues |-> << [number |-> k] >>, review_prs |-> << [number |-> k] >>,
      my_prs |-> <<>> ]

TogglResponse(k) == << TogglTimeEntry(k, 900, "2026-11-03T09:00:00", NoneVal) >>

\* the requests one fetch awaits: fetch_all gathers three, get_time_entries
\* awaits one after the other
SubFetches(service) ==
    IF service = "github"
    THEN {"get_assigned_issues", "get_review_requested_prs", "get_my_prs"}
    ELSE {"time_entries", "get_projects"}

\* str(e) of the exceptions the requests raise
ErrorMessages == {"401 Unauthorized", "timed out"}

\* run_worker(self._fetch_..._data()) on worker slot f, up to the await: the
\* loading flag is set and the requests go out
StartFetch(f, service) ==
    /\ nops < MaxOps
    /\ nops' = nops + 1
    /\ fetches[f].pc = 0
    /\ requests' = [requests EXCEPT ![service] = @ + 1]
    /\ fetches' = [fetches EXCEPT ![f] =
                     [pc |-> 1, service |-> service, request |-> requests'[service],
                      pending |-> SubFetches(service), raised |-> NoneVal]]
    /\ IF service = "github"
       THEN github' = [github EXCEPT !.loading = TRUE] /\ UNCHANGED toggl
       ELSE toggl' = [toggl EXCEPT !.loading = TRUE] /\ UNCHANGED github

action_view_github(f) ==
    /\ nav' = set_view(nav, "github")
    /\ StartFetch(f, "github")
    /\ UNCHANGED << tasks, clock, input, views, projects, tags, call, modal >>
    /\ UNCHANGED repoVars

action_view_toggl(f) ==
    /\ nav' = set_view(nav, "toggl")
    /\ StartFetch(f, "toggl")
    /\ UNCHANGED << tasks, clock, input, views, projects, tags, call, modal >>
    /\ UNCHANGED repoVars

action_refresh(f) ==
    /\ nav.current_view \in Services
    /\ StartFetch(f, nav.current_view)
    /\ UNCHANGED << tasks, clock, input, views, projects, tags, call, nav, modal >>
    /\ UNCHANGED repoVars

\* one awaited request returns; with the last one the fetch stores its result
SubFetchReturns(f) ==
    /\ fetches[f].pc = 1
    /\ \E sub \in fetches[f].pending :
         LET pending == fetches[f].pending \ {sub}
             service == fetches[f].service
             k == fetches[f].request
         IN IF pending # {}
            THEN /\ fetches' = [fetches EXCEPT ![f].pending = pending]
                 /\ UNCHANGED << github, toggl >>
            ELSE /\ fetches' = [fetches EXCEPT ![f].pending = pending, ![f].pc = 0]
                 /\ IF service = "github"
                    THEN /\ github' = set_github_data(github,
                                        GitHubResponse(k).assigned_issues,
                                        GitHubResponse(k).review_prs,
                                        GitHubResponse(k).my_prs)
                         /\ UNCHANGED toggl
                    ELSE /\ toggl' = set_toggl_entries(toggl, TogglResponse(k))
                         /\ UNCHANGED github
    /\ UNCHANGED << nav, requests, modal >>
    /\ UNCHANGED appVars
    /\ UNCHANGED repoVars

\* one awaited request raises: 'except Exception as e' stores str(e)
SubFetchRaises(f) ==
    /\ fetches[f].pc = 1
    /\ \E message \in ErrorMessages :
         /\ fetches' = [fetches EXCEPT ![f].pc = 0, ![f].raised = message]
         /\ IF fetches[f].service = "github"
            THEN github' = set_github_error(github, message) /\ UNCHANGED toggl
            ELSE toggl' = set_toggl_error(toggl, message) /\ UNCHANGED github
    /\ UNCHANGED << nav, requests, modal >>
    /\ UNCHANGED appVars
    /\ UNCHANGED repoVars

NextFetch ==
    \/ \E f \in FetchWorkers :
        \/ action_view_github(f)
        \/ action_view_toggl(f)
        \/ action_refresh(f)
        \/ SubFetchReturns(f)
        \/ SubFetchRaises(f)
    \/ StateAddTask
    \/ StateAddProject

SpecFetch == Init /\ [][NextFetch]_vars

\* ------------------------------------------------------------------------
\* Specification SpecNav: AppState.set_view, view_project and view_tag on an
\* AppState constructed with or without a search query, while tasks,
\* projects and tags are added
\* ------------------------------------------------------------------------
NavProjectIds == {"p1", "p2"}
NavTagIds == {"g1", "g2"}

InitNav ==
    /\ tasks = <<>>
    /\ clock = 0
    /\ nops = 0
    /\ input = <<>>
    /\ views = NoViews
    /\ projects = <<>>
    /\ tags = <<>>
    /\ call = NoCall
    /\ RepoIdle
    /\ github = GitHubDefault
    /\ toggl = TogglDefault
    /\ nav \in {[NavDefault EXCEPT !.search_query = q] : q \in {NoneVal, "a"}}
    /\ fetches = [f \in FetchWorkers |-> NoFetch]
    /\ requests = [github |-> 0, toggl |-> 0]
    /\ modal = NoModal

SetView ==
    /\ \E view \in ViewTypes :
         /\ nav' = set_view(nav, view)
         /\ call' = [fn |-> "set_view", view |-> view]
    /\ UNCHANGED << tasks, clock, nops, input, views, projects, tags >>
    /\ UNCHANGED << github, toggl, fetches, requests, modal >>
    /\ UNCHANGED repoVars

ViewProject ==
    /\ \E project_id \in NavProjectIds :
         /\ nav' = view_project(nav, project_id)
         /\ call' = [fn |-> "view_project", project_id |-> project_id]
    /\ UNCHANGED << tasks, clock, nops, input, views, projects, tags >>
    /\ UNCHANGED << github, toggl, fetches, requests, modal >>
    /\ UNCHANGED repoVars

ViewTag ==
    /\ \E tag_id \in NavTagIds :
         /\ nav' = view_tag(nav, tag_id)
         /\ call' = [fn |-> "view_tag", tag_id |-> tag_id]
    /\ UNCHANGED << tasks, clock, nops, input, views, projects, tags >>
    /\ UNCHANGED << github, toggl, fetches, requests, modal >>
    /\ UNCHANGED repoVars

NextNav ==
    \/ SetView
    \/ ViewProject
    \/ ViewTag
    \/ StateAddTask
    \/ StateAddProject
    \/ StateAddTag

SpecNav == InitNav /\ [][NextNav]_vars

\* ------------------------------------------------------------------------
\* Specification SpecModal: widgets/task_modal.py and project_modal.py with
\* the callbacks app.py gives them (handle_task_result, handle_edit_result,
\* handle_project_result); the saves they start stay in flight, their
\* steps are those of SpecEdits
\* ------------------------------------------------------------------------
\* what is typed into the title or name input
ModalTexts == {"", "  ", "a", " b "}

\* TaskService.create_project(name, description, color), id being the
\* generated id and now its now_iso() call
create_project(id, name, description, color, now) ==
    [ id |-> id, name |-> name, description |-> description, color |-> color,
      icon |-> NoneVal, order_index |-> 0, is_inbox |-> FALSE,
      created_at |-> now, updated_at |-> now, deleted |-> FALSE ]

\* app.py action_new_task: push_screen(TaskModal(...)), the title input empty
OpenNewTask ==
    /\ modal = NoModal
    /\ modal' = [screen |-> "task", task |-> <<>>, value |-> ""]
    /\ UNCHANGED << github, toggl, nav, fetches, requests >>
    /\ UNCHANGED appVars
    /\ UNCHANGED repoVars

\* app.py action_edit_task: the modal opens on the selected task's title
OpenEditTask ==
    /\ modal = NoModal
    /\ \E i \in DOMAIN tasks :
         modal' = [screen |-> "task", task |-> << tasks[i] >>, value |-> tasks[i].title]
    /\ UNCHANGED << github, toggl, nav, fetches, requests >>
    /\ UNCHANGED appVars
    /\ UNCHANGED repoVars

\* app.py action_new_project: push_screen(ProjectModal()), the name input empty
OpenNewProject ==
    /\ modal = NoModal
    /\ modal' = [screen |-> "project", value |-> ""]
    /\ UNCHANGED << github, toggl, nav, fetches, requests >>
    /\ UNCHANGED appVars
    /\ UNCHANGED repoVars

\* the user edits the title or name input
InputChanged ==
    /\ modal # NoModal
    /\ \E text \in ModalTexts : modal' = [modal EXCEPT !.value = text]
    /\ UNCHANGED << github, toggl, nav, fetches, requests >>
    /\ UNCHANGED appVars
    /\ UNCHANGED repoVars

\* TaskModal._save_task and, when it dismisses, the callback; the project
\* select and the due date input are left as compose made them (no project,
\* no due date)
SaveTask ==
    /\ modal # NoModal
    /\ modal.screen = "task"
    /\ LET title == strip(modal.value)
       IN IF title = ""
          THEN /\ call' = [fn |-> "_save_task", value |-> modal.value]
               /\ UNCHANGED << tasks, clock, nops, modal, saves >>
          ELSE /\ nops < MaxOps
               /\ nops' = nops + 1
               /\ \E n \in Now(clock) :
                    /\ clock' = n
                    /\ IF modal.task # <<>>
                       THEN tasks' = add_task(tasks,
                              update_task(modal.task[1],
                                [title |-> title, project_id |-> NoneVal,
                                 priority |-> modal.task[1].priority,
                                 due_date |-> NoneVal], now_iso(n)))
                       ELSE \E id \in TaskIds \ Ids(tasks) :
                              tasks' = add_task(tasks,
                                create_task(id, title, NoneVal, "inbox", now_iso(n)))
               /\ \E w \in SaveWorkers : StartSaveOf(w, tasks', projects, tags, nops')
               /\ modal' = NoModal
               /\ call' = [fn |-> "_save_task", value |-> modal.value]
    /\ UNCHANGED << input, views, projects, tags >>
    /\ UNCHANGED << disk, conn, last_saved, loaded >>
    /\ UNCHANGED << github, toggl, nav, fetches, requests >>

\* ProjectModal._save_project and, when it dismisses, the callback
SaveProject ==
    /\ modal # NoModal
    /\ modal.screen = "project"
    /\ LET name == strip(modal.value)
       IN IF name = ""
          THEN /\ call' = [fn |-> "_save_project", value |-> modal.value]
               /\ UNCHANGED << projects, clock, nops, modal, saves >>
          ELSE /\ nops < MaxOps
               /\ nops' = nops + 1
               /\ \E n \in Now(clock), id \in {"p1", "p2"} \ Ids(projects) :
                    /\ clock' = n
                    /\ projects' = add_project(projects,
                         create_project(id, name, NoneVal, NoneVal, now_iso(n)))
               /\ \E w \in SaveWorkers : StartSaveOf(w, tasks, projects', tags, nops')
               /\ modal' = NoModal
               /\ call' = [fn |-> "_save_project", value |-> modal.value]
    /\ UNCHANGED << input, views, tasks, tags >>
    /\ UNCHANGED << disk, conn, last_saved, loaded >>
    /\ UNCHANGED << github, toggl, nav, fetches, requests >>

\* action_cancel of either modal: dismiss(None), the callback does nothing
CancelModal ==
    /\ modal # NoModal
    /\ modal' = NoModal
    /\ call' = [fn |-> "action_cancel", value |-> modal.value]
    /\ UNCHANGED << tasks, clock, nops, input, views, projects, tags >>
    /\ UNCHANGED << github, toggl, nav, fetches, requests >>
    /\ UNCHANGED repoVars

NextModal ==
    \/ OpenNewTask
    \/ OpenEditTask
    \/ OpenNewProject
    \/ InputChanged
    \/ SaveTask
    \/ SaveProject
    \/ CancelModal

SpecModal == Init /\ [][NextModal]_vars

\* ------------------------------------------------------------------------
\* Specification SpecMount: app.py on_mount (get_snapshot, load_snapshot),
\* edits of the loaded state, and _save_state (to_snapshot, save_snapshot)
\* on a database that holds an earlier save
\* ------------------------------------------------------------------------
\* AppState.load_snapshot: the three maps it assigns
load_snapshot(snapshot) ==
    [ tasks |-> snapshot.tasks, projects |-> snapshot.projects, tags |-> snapshot.tags ]

\* the database files found at start: those a whole save_snapshot of one of
\* the snapshots leaves
FoundDatabases ==
    { RunStatements(EmptyDb, Statements(snapshot)).db :
        snapshot \in {s \in Snapshots :
                        RunStatements(EmptyDb, Statements(s)).raised = ""} }

InitMount ==
    /\ tasks = <<>>
    /\ clock = 0
    /\ nops = 0
    /\ input = <<>>
    /\ views = NoViews
    /\ projects = <<>>
    /\ tags = <<>>
    /\ call = NoCall
    /\ disk \in FoundDatabases
    /\ conn = disk
    /\ last_saved = NoSave
    /\ loaded = NoLoad
    /\ saves = [w \in SaveWorkers |-> Idle]
    /\ UiIdle

\* on_mount: snapshot = await self.repository.get_snapshot();
\* self.state.load_snapshot(snapshot); an exception of get_snapshot leaves
\* the state as constructed
OnMount ==
    /\ loaded = NoLoad
    /\ LET got == get_snapshot(conn)
       IN /\ loaded' = [op |-> "get_snapshot"] @@ got
          /\ IF got.raised = ""
             THEN /\ tasks' = load_snapshot(got.snap).tasks
                  /\ projects' = load_snapshot(got.snap).projects
                  /\ tags' = load_snapshot(got.snap).tags
             ELSE UNCHANGED << tasks, projects, tags >>
    /\ UNCHANGED << clock, nops, input, views, call >>
    /\ UNCHANGED << disk, conn, last_saved, saves >>
    /\ UNCHANGED uiVars

\* an edit of the loaded state: a task is added or replaced
MountedAddTask ==
    /\ loaded # NoLoad
    /\ StateAddTask

\* _save_state run to its end: to_snapshot, then the statements of
\* save_snapshot until one raises, then the commit
SaveState ==
    /\ loaded # NoLoad
    /\ LET snapshot == to_snapshot(tasks, projects, tags)
           run == RunStatements(conn, Statements(snapshot))
       IN /\ conn' = run.db
          /\ disk' = IF run.raised = "" THEN run.db ELSE disk
          /\ last_saved' = [saved |-> TRUE, snap |-> snapshot,
                            raised |-> run.raised, closed |-> FALSE]
    /\ UNCHANGED appVars
    /\ UNCHANGED << loaded, saves >>
    /\ UNCHANGED uiVars

NextMount ==
    \/ OnMount
    \/ MountedAddTask
    \/ SaveState

SpecMount == InitMount /\ [][NextMount]_vars

\* ------------------------------------------------------------------------
\* Specification SpecOpen: domain/filters.py, the four views of open tasks
\* called on one task of every status with every combination of due date and
\* start date
\* ------------------------------------------------------------------------
OpenDates == {NoneVal, Yesterday, Today, Tomorrow}

OpenTasks ==
    { [ Task("t1", "a", now_iso(0), now_iso(0)) EXCEPT
          !.status = st, !.due_date = due, !.start_date = start, !.deleted = del ] :
        st \in {"inbox", "active", "completed", "cancelled"},
        due \in OpenDates, start \in OpenDates, del \in BOOLEAN }

CallOpenViews ==
    /\ call = NoCall
    /\ \E task \in OpenTasks :
         call' = [fn |-> "open_views", tasks |-> << task >>,
                  inbox |-> get_inbox_tasks(<< task >>),
                  today |-> get_today_tasks(<< task >>),
                  upcoming |-> get_upcoming_tasks(<< task >>),
                  anytime |-> get_anytime_tasks(<< task >>)]
    /\ UNCHANGED << tasks, clock, nops, input, views, projects, tags >>
    /\ UNCHANGED repoVars
    /\ UNCHANGED uiVars

NextOpen == CallOpenViews

SpecOpen == Init /\ [][NextOpen]_vars

\* ------------------------------------------------------------------------
\* Claims
\* ------------------------------------------------------------------------
\* the calendar day of a date string relative to today (0), as the claims mean it
DayOf(s) ==
    CASE s = TwoDaysAgo -> -2
      [] s = Yesterday -> -1
      [] s = Today -> 0
      [] s = TodayNoon -> 0
      [] s \in Range(Instants) -> 0
      [] s = Tomorrow -> 1

HasDate(d) == d # NoneVal /\ d # ""
DueToday(t) == HasDate(t.due_date) /\ DayOf(t.due_date) = 0
DueBefore(t) == HasDate(t.due_date) /\ DayOf(t.due_date) < 0
DueAfter(t) == HasDate(t.due_date) /\ DayOf(t.due_date) > 0
StartToday(t) == HasDate(t.start_date) /\ DayOf(t.start_date) = 0
StartAfter(t) == HasDate(t.start_date) /\ DayOf(t.start_date) > 0
NotDone(t) == t.status # "completed" /\ t.status # "cancelled"
In(t, out) == \E k \in DOMAIN out : out[k] = t

\* the outputs of all nine view functions for a task list
ViewOutputs(ts) ==
    { get_inbox_tasks(ts), get_today_tasks(ts), get_upcoming_tasks(ts),
      get_anytime_tasks(ts), get_completed_tasks(ts, DefaultLimit),
      get_overdue_tasks(ts) }
    \cup { get_project_tasks(ts, p) : p \in {"p1", NoneVal} }
    \cup { get_tag_tasks(ts, g) : g \in {"g1"} }
    \cup { search_tasks(ts, q) : q \in {"a", "b", "", NoneVal} }

\* C1: after any sequence of task mutations, a task whose deleted flag is
\* true is in the output of none of the nine view functions.
C1_DeletedInNoView ==
    \A i \in DOMAIN tasks :
        tasks[i].deleted => \A out \in ViewOutputs(tasks) : ~In(tasks[i], out)

\* C1 witness: a deleted task that some view would list were it not deleted.
C1_Witness ==
    \E i \in DOMAIN tasks :
        /\ tasks[i].deleted
        /\ LET ts == [ tasks EXCEPT ![i].deleted = FALSE ]
           IN \E out \in ViewOutputs(ts) : In(ts[i], out)

\* C4 (as claimed): after any sequence of mutation-service operations every
\* task whose status is completed has a non-null completed_at.
C4_CompletedHasCompletedAt ==
    \A i \in DOMAIN tasks :
        tasks[i].status = "completed" => tasks[i].completed_at # NoneVal

\* C3 (as claimed): a non-deleted, not completed, not cancelled task due today
\* is in get_today_tasks and not in get_upcoming_tasks, whatever its start date.
C3_DueTodayNotUpcoming ==
    views.rendered =>
        \A i \in DOMAIN input :
            LET t == input[i]
            IN (~t.deleted /\ NotDone(t) /\ DueToday(t)) =>
                   In(t, views.today) /\ ~In(t, views.upcoming)

\* C3 (amended): such a task is in get_today_tasks, and it is in
\* get_upcoming_tasks exactly when its start date is strictly after today.
C3_DueTodayUpcomingOnlyByStart ==
    views.rendered =>
        \A i \in DOMAIN input :
            LET t == input[i]
            IN (~t.deleted /\ NotDone(t) /\ DueToday(t)) =>
                   /\ In(t, views.today)
                   /\ In(t, views.upcoming) <=> StartAfter(t)

\* C3 witness: the views were computed for a list holding a task due today
\* with no future start date and a task due today that starts tomorrow.
C3_Witness ==
    /\ views.rendered
    /\ \E i, j \in DOMAIN input :
         /\ ~input[i].deleted /\ NotDone(input[i]) /\ DueToday(input[i])
         /\ ~StartAfter(input[i])
         /\ ~input[j].deleted /\ NotDone(input[j]) /\ DueToday(input[j])
         /\ StartAfter(input[j])

\* C8: a task is in the output of get_today_tasks iff it is not deleted, its
\* status is neither completed nor cancelled, and it is due today, starts
\* today or is due strictly before today.
C8_TodayMembership ==
    views.rendered =>
        /\ \A i \in DOMAIN input :
              In(input[i], views.today) <=>
                  /\ ~input[i].deleted
                  /\ NotDone(input[i])
                  /\ DueToday(input[i]) \/ StartToday(input[i]) \/ DueBefore(input[i])
        /\ \A k \in DOMAIN views.today : In(views.today[k], input)

\* C8 witness: a task that is in Today only through its start date, next to a
\* task left out because it is due tomorrow.
C8_Witness ==
    /\ views.rendered
    /\ \E i, j \in DOMAIN input :
         /\ In(input[i], views.today) /\ StartToday(input[i])
         /\ ~DueToday(input[i]) /\ ~DueBefore(input[i])
         /\ ~In(input[j], views.today) /\ DueAfter(input[j])
         /\ ~input[j].deleted /\ NotDone(input[j])

\* C9: in the output of get_today_tasks every overdue task comes before every
\* task that is not overdue, for any input order and any order_index values.
C9_OverdueFirst ==
    views.rendered =>
        \A k, l \in DOMAIN views.today :
            (DueBefore(views.today[l]) /\ ~DueBefore(views.today[k])) => l < k

\* C9 witness: the overdue task came second in the input and has the larger
\* order_index, and is listed first.
C9_Witness ==
    /\ views.rendered
    /\ Len(input) = 2
    /\ ~DueBefore(input[1]) /\ DueBefore(input[2])
    /\ input[1].order_index < input[2].order_index
    /\ Len(views.today) = 2
    /\ views.today[1] = input[2]

\* C10: a task is in the output of get_overdue_tasks iff it is not deleted,
\* not completed, not cancelled and due strictly before today; the output is
\* ascending by due date; every task in it is in the output of get_today_tasks.
C10_Overdue ==
    views.rendered =>
        /\ \A i \in DOMAIN input :
              In(input[i], views.overdue) <=>
                  (~input[i].deleted /\ NotDone(input[i]) /\ DueBefore(input[i]))
        /\ \A k \in DOMAIN views.overdue : In(views.overdue[k], input)
        /\ \A k, l \in DOMAIN views.overdue :
              k < l => DayOf(views.overdue[k].due_date) <= DayOf(views.overdue[l].due_date)
        /\ \A k \in DOMAIN views.overdue : In(views.overdue[k], views.today)

\* C10 witness: two overdue tasks given latest first are listed earliest first.
C10_Witness ==
    /\ views.rendered
    /\ Len(input) = 2
    /\ Len(views.overdue) = 2
    /\ DayOf(input[2].due_date) < DayOf(input[1].due_date)
    /\ views.overdue[1] = input[2]

\* the entities of a snapshot, each task with its tag ids as a set
TaskSet(snapshot) ==
    { [id |-> t.id, fields |-> [t EXCEPT !.tags = <<>>], tag_ids |-> Range(t.tags)] :
        t \in Range(snapshot.tasks) }

\* two snapshots hold the same ids and the same field values in each of the
\* five entity maps (dict equality does not depend on the order of the keys)
SameEntities(a, b) ==
    /\ TaskSet(a) = TaskSet(b)
    /\ Range(a.projects) = Range(b.projects)
    /\ Range(a.sections) = Range(b.sections)
    /\ Range(a.tags) = Range(b.tags)
    /\ Range(a.reminders) = Range(b.reminders)

\* the database holds the blob of a save of the snapshot and every row that
\* save writes
WholeSaveOf(db, snapshot) ==
    /\ db.blob = json_dumps(StateSnapshot_to_dict(snapshot))
    /\ \A t \in Range(snapshot.tasks) :
          /\ TaskRow(t) \in db.tasks
          /\ {l \in db.task_tags : l[1] = t.id} = {<< t.id, g >> : g \in Range(t.tags)}
    /\ \A x \in Range(snapshot.projects) : ProjectRow(x) \in db.projects
    /\ \A x \in Range(snapshot.sections) : SectionRow(x) \in db.sections
    /\ \A x \in Range(snapshot.tags) : TagRow(x) \in db.tags
    /\ \A x \in Range(snapshot.reminders) : ReminderRow(x) \in db.reminders

\* C2 (as claimed): whatever the interleaving of the saves in flight and
\* whichever of them fail, every committed state of the database is the new
\* database or holds the blob of one save together with all the rows of that
\* save.
C2_CommittedStatesAreWholeSaves ==
    \/ disk = EmptyDb
    \/ \E snapshot \in AppSnapshots : WholeSaveOf(disk, snapshot)

\* the stored blob can be turned into a snapshot
BlobParseable(text) ==
    /\ text.form = "json"
    /\ IsJsonObject(text.value)
    /\ \A k \in {"tasks", "projects", "sections", "tags", "reminders"} :
          k \in DOMAIN text.value =>
              \A i \in DOMAIN text.value[k] :
                  LET e == text.value[k][i]
                  IN /\ "id" \in DOMAIN e
                     /\ (IF k = "tasks" THEN "title"
                         ELSE IF k = "reminders" THEN "at" ELSE "name") \in DOMAIN e
                     /\ ("status" \in DOMAIN e /\ k = "tasks") => e.status \in TaskStatus

\* C5 (as claimed): get_snapshot raises no error whatever the stored blob is;
\* it returns the blob's snapshot when the blob can be turned into one and the
\* snapshot rebuilt from the tables otherwise.
C5_GetSnapshotNeverFailsOnBlob ==
    loaded.op = "get_snapshot" =>
        /\ loaded.raised = ""
        /\ IF BlobParseable(conn.blob)
           THEN loaded.via = "blob"
           ELSE loaded.via = "tables" /\ loaded.snap = _load_from_tables(conn)

\* C6 (as claimed): after any sequence of calls of save_snapshot of which the
\* last one returned, _load_from_tables yields the entities of the snapshot
\* saved last: the same ids and field values in the five maps and the same set
\* of tag ids for every task.
C6_TablesEqualLastSaved ==
    (loaded.op = "tables" /\ last_saved.saved /\ last_saved.raised = "")
        => SameEntities(loaded.snap, last_saved.snap)

\* C7: get_snapshot called after save_snapshot(S) on the same connection, or
\* after a save_snapshot(S) that returned and a reconnect, takes the blob path
\* and returns a snapshot with the entities of S and the version of S.
C7_BlobRoundTrip ==
    (/\ loaded.op = "get_snapshot"
     /\ last_saved.saved
     /\ last_saved.raised = "" \/ ~last_saved.closed)
        => /\ loaded.raised = ""
           /\ loaded.via = "blob"
           /\ SameEntities(loaded.snap, last_saved.snap)
           /\ loaded.snap.version = last_saved.snap.version

\* C7 witness: the snapshot with every entity type, every optional field set
\* and version 2 was saved and then loaded through the blob.
C7_Witness ==
    /\ loaded.op = "get_snapshot"
    /\ last_saved.saved
    /\ last_saved.raised = ""
    /\ last_saved.snap = SnapFull
    /\ loaded.via = "blob"
    /\ loaded.snap.version = 2

\* the calendar day of the earlier of the dates a task has
EarliestDay(t) ==
    LET days == (IF HasDate(t.due_date) THEN {DayOf(t.due_date)} ELSE {})
                \cup (IF HasDate(t.start_date) THEN {DayOf(t.start_date)} ELSE {})
    IN CHOOSE d \in days : \A e \in days : d <= e

\* C11: a task is in the output of get_upcoming_tasks iff it is not deleted,
\* not completed, not cancelled, and its due date or its start date is
\* strictly after today; the output is ascending by the smaller of the due
\* and start dates a task has.
C11_Upcoming ==
    views.rendered =>
        /\ \A i \in DOMAIN input :
              In(input[i], views.upcoming) <=>
                  /\ ~input[i].deleted
                  /\ NotDone(input[i])
                  /\ DueAfter(input[i]) \/ StartAfter(input[i])
        /\ \A k \in DOMAIN views.upcoming : In(views.upcoming[k], input)
        /\ \A k, l \in DOMAIN views.upcoming :
              k < l => EarliestDay(views.upcoming[k]) <= EarliestDay(views.upcoming[l])

\* C11 witness: two upcoming tasks given later first are listed earlier first;
\* the first one is upcoming through its start date only.
C11_Witness ==
    /\ views.rendered
    /\ Len(input) = 2
    /\ Len(views.upcoming) = 2
    /\ EarliestDay(input[2]) < EarliestDay(input[1])
    /\ views.upcoming[1] = input[2]
    /\ StartAfter(input[2]) /\ ~DueAfter(input[2])

\* the position in time of a completion timestamp, 0 for none
CompletedRank(t) ==
    IF HasDate(t.completed_at)
    THEN CHOOSE n \in DOMAIN Instants : Instants[n] = t.completed_at
    ELSE 0

\* the tasks get_completed_tasks is to list
IsCompleted(t) == ~t.deleted /\ t.status = "completed"

\* C12: get_completed_tasks(tasks, limit) returns non-deleted tasks with status
\* completed only, each once, in descending order of completed_at with the
\* tasks without completed_at last; it returns limit of them, or all when
\* there are fewer, and no task left out comes before a task returned.
C12_Completed ==
    call.fn = "get_completed_tasks" =>
        LET out == call.completed
            eligible == {t \in Range(call.tasks) : IsCompleted(t)}
        IN /\ Range(out) \subseteq eligible
           /\ \A k, l \in DOMAIN out : k < l => out[k] # out[l]
           /\ Len(out) = Min2(call.limit, Cardinality(eligible))
           /\ \A k, l \in DOMAIN out :
                 k < l => CompletedRank(out[k]) >= CompletedRank(out[l])
           /\ \A t \in eligible \ Range(out) :
                 \A k \in DOMAIN out : CompletedRank(out[k]) >= CompletedRank(t)

\* C12 witness: three completed tasks, the one without completed_at given
\* first and the latest given last, were cut to the two latest.
C12_Witness ==
    /\ call.fn = "get_completed_tasks"
    /\ call.limit = 2
    /\ Len(call.tasks) = 3
    /\ \A i \in 1..3 : IsCompleted(call.tasks[i])
    /\ CompletedRank(call.tasks[1]) = 0
    /\ CompletedRank(call.tasks[2]) < CompletedRank(call.tasks[3])
    /\ call.completed = << call.tasks[3], call.tasks[2] >>

\* out lists exactly the tasks of ts that are in eligible, each once, in
\* ascending order_index, tasks of equal order_index in their order in ts
OrderedExactly(out, ts, eligible) ==
    /\ Range(out) = Range(ts) \cap eligible
    /\ \A k, l \in DOMAIN out : k < l =>
          /\ out[k] # out[l]
          /\ out[k].order_index <= out[l].order_index
          /\ out[k].order_index = out[l].order_index =>
                \E i, j \in DOMAIN ts : i < j /\ ts[i] = out[k] /\ ts[j] = out[l]

NoDate(d) == d = NoneVal \/ d = ""

\* C13: Inbox, Anytime, Project and Tag each return exactly the non-deleted
\* tasks that satisfy their predicate, in ascending order_index order, tasks
\* of equal order_index in their input order.
C13_OrderIndexViews ==
    call.fn = "order_index_views" =>
        LET all == Range(call.tasks)
        IN /\ OrderedExactly(call.inbox, call.tasks,
                 {t \in all : ~t.deleted /\ t.status = "inbox"})
           /\ OrderedExactly(call.anytime, call.tasks,
                 {t \in all : /\ ~t.deleted
                              /\ t.status \in {"active", "inbox"}
                              /\ NoDate(t.due_date) /\ NoDate(t.start_date)})
           /\ OrderedExactly(call.project, call.tasks,
                 {t \in all : /\ ~t.deleted /\ NotDone(t)
                              /\ t.project_id = call.project_id})
           /\ OrderedExactly(call.tag, call.tasks,
                 {t \in all : /\ ~t.deleted /\ NotDone(t)
                              /\ \E i \in DOMAIN t.tags : t.tags[i] = call.tag_id})

\* C13 witness: two tasks given with the larger order_index first are both in
\* Inbox, Anytime and Project, smaller order_index first; only the one with
\* the tag is in Tag.
C13_Witness ==
    /\ call.fn = "order_index_views"
    /\ Len(call.tasks) = 2
    /\ call.tasks[1].order_index > call.tasks[2].order_index
    /\ call.inbox = << call.tasks[2], call.tasks[1] >>
    /\ call.anytime = call.inbox
    /\ call.project = call.inbox
    /\ call.tag = << call.tasks[1] >>

\* C14: toggle_completed applied twice to a task with status inbox and no
\* completed_at gives a task with status inbox and no completed_at whose
\* fields other than updated_at all equal the original's; after the first
\* toggle the status is completed and completed_at is set.
C14_ToggleTwice ==
    (call.fn = "toggle_twice" /\ call.task.status = "inbox"
        /\ call.task.completed_at = NoneVal)
    => /\ call.once.status = "completed"
       /\ call.once.completed_at # NoneVal
       /\ call.twice.status = "inbox"
       /\ call.twice.completed_at = NoneVal
       /\ [ call.twice EXCEPT !.updated_at = call.task.updated_at ] = call.task

\* a double toggle of an inbox task that has every optional field set
C14_Witness ==
    /\ call.fn = "toggle_twice"
    /\ call.task.status = "inbox"
    /\ call.task.completed_at = NoneVal
    /\ call.task.metadata # {}
    /\ call.task.tags # << >>
    /\ call.once.status = "completed"
    /\ call.twice.status = "inbox"

\* C15: every mutation of the mutation service (update_task, complete_task,
\* uncomplete_task, toggle_completed, delete_task) returns a task whose
\* updated_at is strictly greater than that of the task it was given, also
\* when the task was created or mutated immediately before; updated_at
\* strictly increases on both toggles of a double toggle.
C15_UpdatedAtStrictlyIncreases ==
    /\ call.fn \in {"mutation", "update_task"}
         => InstantOf(call.result.updated_at) > InstantOf(call.task.updated_at)
    /\ call.fn = "toggle_twice"
         => /\ InstantOf(call.once.updated_at) > InstantOf(call.task.updated_at)
            /\ InstantOf(call.twice.updated_at) > InstantOf(call.once.updated_at)

\* C16: TaskService.delete_task and AppState.remove_task, applied to a task
\* that is or is not already deleted, leave it with deleted = true and
\* updated_at = the time of the deletion, every other field unchanged.
C16_SoftDelete ==
    ((call.fn = "mutation" /\ call.op = "delete_task") \/ call.fn = "remove_task")
    => call.result = [ call.task EXCEPT !.deleted = TRUE, !.updated_at = call.now ]

\* the keyword `key` names the field f: by the field's name or by its dict key
NamesField(key, f) == key = f \/ key = Get(field_mapping, f, f)

\* C18: update_task(task, **updates) returns a task that differs from its
\* input only in the fields named in updates and in updated_at: a named field
\* has the supplied value, updated_at is the time of the call, every other
\* field is the input's, and a name that is no field changes nothing.
C18_UpdateFrame ==
    call.fn = "update_task"
    => /\ DOMAIN call.result = DOMAIN call.task
       /\ \A f \in DOMAIN call.task :
            LET named == {key \in DOMAIN call.updates : NamesField(key, f)}
            IN IF f = "updated_at" THEN call.result[f] = call.now
               ELSE IF named # {}
               THEN \A key \in named : call.result[f] = call.updates[key]
               ELSE call.result[f] = call.task[f]

\* an update by the field's name, and an update whose name is no field
C18_Witness ==
    /\ call.fn = "update_task"
    /\ call.task.metadata # {}
    /\ \/ /\ call.updates = [title |-> "b", priority |-> "high"]
          /\ call.result.title = "b"
          /\ call.result.priority = "high"
          /\ call.result.due_date = call.task.due_date
       \/ /\ call.updates = [foo |-> "x"]
          /\ [ call.result EXCEPT !.updated_at = call.task.updated_at ] = call.task

\* the ids of the tasks, projects and tags of a snapshot
SnapshotIds(snapshot) ==
    [ tasks |-> Ids(snapshot.tasks), projects |-> Ids(snapshot.projects),
      tags |-> Ids(snapshot.tags) ]

\* C17: across the AppState operations add_task, remove_task, add_project,
\* remove_project, add_tag, remove_tag and the application's create, edit,
\* toggle and delete actions no id leaves the tasks, projects or tags map, and
\* a snapshot holds every task, project and tag id the snapshot before it held.
C17_NoIdRemoved ==
    [][ /\ Ids(tasks) \subseteq Ids(tasks')
        /\ Ids(projects) \subseteq Ids(projects')
        /\ Ids(tags) \subseteq Ids(tags')
        /\ (call.fn = "to_snapshot" /\ call'.fn = "to_snapshot")
             => \A m \in {"tasks", "projects", "tags"} :
                  SnapshotIds(call.snapshot)[m] \subseteq SnapshotIds(call'.snapshot)[m]
        /\ call'.fn = "to_snapshot"
             => \A m \in {"tasks", "projects", "tags"} :
                  SnapshotIds(call'.snapshot)[m] \subseteq
                      SnapshotIds(to_snapshot(tasks', projects', tags'))[m] ]_vars

\* a snapshot taken before a task was soft-deleted, the task still in the map
C17_Witness ==
    /\ call.fn = "to_snapshot"
    /\ \E i \in DOMAIN call.snapshot.tasks : \E j \in DOMAIN tasks :
         /\ tasks[j].id = call.snapshot.tasks[i].id
         /\ ~call.snapshot.tasks[i].deleted
         /\ tasks[j].deleted

\* C19: an index returned by get_order_index_between is strictly less than
\* the following task's order_index when one is given, whatever its value
\* (0.0 and negative values included), and strictly greater than the
\* preceding task's when one is given, also after repeated insertions.
\* Neighbours that are both given are in ascending order.
C19_StrictlyBetween ==
    (/\ call.fn = "get_order_index_between"
     /\ (call.before # << >> /\ call.after # << >>)
          => FloatLess(call.before[1].order_index, call.after[1].order_index))
    => /\ call.after # << >> => FloatLess(call.result, call.after[1].order_index)
       /\ call.before # << >> => FloatLess(call.before[1].order_index, call.result)

\* r = n / d as fractions of integers
IsQuotient(r, n, d) == r[1] * d = n * r[2]

\* C20: get_order_index_between returns 1.0 with no neighbours, X/2 with only
\* a following neighbour of index X, X + 1.0 with only a preceding neighbour
\* of index X and (X+Y)/2 with both; get_next_order_index returns 1.0 for an
\* empty list and otherwise the maximum order_index of the list plus 1.0.
C20_OrderIndexValues ==
    /\ call.fn = "get_order_index_between"
         => LET r == call.result
                X == IF call.before # << >> THEN call.before[1].order_index
                     ELSE call.after[1].order_index
                Y == call.after[1].order_index
            IN CASE call.before = << >> /\ call.after = << >> -> r = << 1, 1 >>
                 [] call.before = << >> /\ call.after # << >> ->
                        IsQuotient(r, X[1], 2 * X[2])
                 [] call.before # << >> /\ call.after = << >> ->
                        IsQuotient(r, X[1] + X[2], X[2])
                 [] OTHER ->
                        IsQuotient(r, X[1] * Y[2] + Y[1] * X[2], 2 * X[2] * Y[2])
    /\ call.fn = "get_next_order_index"
         => IF call.tasks = << >> THEN call.result = << 1, 1 >>
            ELSE \E i \in DOMAIN call.tasks :
                   /\ \A j \in DOMAIN call.tasks :
                        ~FloatLess(call.tasks[i].order_index, call.tasks[j].order_index)
                   /\ IsQuotient(call.result,
                                 call.tasks[i].order_index[1] + call.tasks[i].order_index[2],
                                 call.tasks[i].order_index[2])

\* a second insertion between the same pair: between 1.0 and the 1.5 that
\* the first insertion between 1.0 and 2.0 returned
C20_Witness ==
    /\ call.fn = "get_order_index_between"
    /\ call.before # << >>
    /\ call.after # << >>
    /\ call.before[1].order_index = << 1, 1 >>
    /\ call.after[1].order_index = << 3, 2 >>
    /\ call.result = << 5, 4 >>
    /\ Len(tasks) = 4

\* C21: for every Task, Project, Section, Tag, Reminder and StateSnapshot e,
\* from_dict(e.to_dict()) equals e in every field, with the optional fields
\* set and with them absent.
C21_RoundTrip ==
    call.fn = "round_trip"
    => /\ DOMAIN call.result = DOMAIN call.entity
       /\ \A f \in DOMAIN call.entity : call.result[f] = call.entity[f]

\* a snapshot holding a task with every optional field set and one entity of
\* every other class, and a tag without colour
C21_Witness ==
    /\ call.fn = "round_trip"
    /\ \/ /\ call.cls = "StateSnapshot"
          /\ call.entity.version = 2
          /\ call.entity.tasks # <<>>
          /\ call.entity.tasks[1] = TaskB
          /\ call.entity.reminders # <<>>
          /\ call.entity.sections # <<>>
          /\ call.data.tasks[1].contextUrl = TaskB.context_url
          /\ call.result = call.entity
       \/ /\ call.cls = "Tag"
          /\ call.entity.color = NoneVal
          /\ call.result = call.entity

\* the query is a substring of the text when case is ignored, for the texts
\* and queries that occur
FoldContains(text, query) ==
    CASE query = "" -> TRUE
      [] query = "a" -> text \in {"a", "Ab", "ab", "xa", "XA"}
      [] query = "b" -> text \in {"b", "Ab", "ab"}
      [] query = "Ab" -> text \in {"Ab", "ab"}
      [] query = "XA" -> text \in {"xa", "XA"}

\* the day of d is within the inclusive range [from, to], a bound that is not
\* supplied not restricting
DayWithin(d, from, to) ==
    /\ HasDate(d)
    /\ HasDate(from) => DayOf(from) <= DayOf(d)
    /\ HasDate(to) => DayOf(d) <= DayOf(to)

\* the task satisfies every supplied criterion
Satisfies(t, c) ==
    /\ c.include_deleted \/ ~t.deleted
    /\ c.statuses = {} \/ t.status \in c.statuses
    /\ c.project_ids = {} \/ t.project_id \in c.project_ids
    /\ c.priorities = {} \/ t.priority \in c.priorities
    /\ c.kinds = {} \/ t.kind \in c.kinds
    /\ c.sizes = {} \/ t.size \in c.sizes
    /\ c.tag_ids = {} \/ Range(t.tags) \cap c.tag_ids # {}
    /\ ~HasDate(c.assignee) \/ t.assignee = c.assignee
    /\ (~HasDate(c.due_date_start) /\ ~HasDate(c.due_date_end))
          \/ DayWithin(t.due_date, c.due_date_start, c.due_date_end)
    /\ (~HasDate(c.start_date_start) /\ ~HasDate(c.start_date_end))
          \/ DayWithin(t.start_date, c.start_date_start, c.start_date_end)
    /\ ~HasDate(c.search_query)
          \/ FoldContains(t.title, c.search_query)
          \/ (t.notes # NoneVal /\ FoldContains(t.notes, c.search_query))

\* C22: filter_tasks returns, in input order, exactly the tasks that satisfy
\* every supplied criterion at once; search_tasks applies only the search
\* criterion, deleted tasks excluded, no status restriction.
C22_FilterTasks ==
    /\ call.fn = "filter_tasks"
         => call.result = SelectSeq(call.tasks, LAMBDA t : Satisfies(t, call.criteria))
    /\ call.fn = "search_tasks"
         => call.result =
              SelectSeq(call.tasks,
                        LAMBDA t : /\ ~t.deleted
                                   /\ \/ ~HasDate(call.query)
                                      \/ FoldContains(t.title, call.query)
                                      \/ (t.notes # NoneVal
                                            /\ FoldContains(t.notes, call.query)))

\* every criterion supplied at once and two of three tasks kept in input
\* order, one of them found by its notes in another case than the query's
C22_Witness ==
    /\ call.fn = "filter_tasks"
    /\ call.criteria.statuses # {}
    /\ call.criteria.project_ids # {}
    /\ call.criteria.tag_ids # {}
    /\ call.criteria.priorities # {}
    /\ call.criteria.kinds # {}
    /\ call.criteria.sizes # {}
    /\ call.criteria.assignee = "me"
    /\ call.criteria.due_date_start = Yesterday
    /\ call.criteria.start_date_start = Tomorrow
    /\ call.criteria.search_query = "XA"
    /\ Len(call.tasks) = 3
    /\ Len(call.result) = 2
    /\ call.result[1].id = "t2"
    /\ call.result[2] = FilterTaskB

\* the seconds of the entries with index in I
RECURSIVE SumSeconds(_, _)
SumSeconds(entries, I) ==
    IF I = {} THEN 0
    ELSE LET i == CHOOSE i \in I : TRUE
         IN entries[i].duration + SumSeconds(entries, I \ {i})

\* the sum of the values of a dict of hours
RECURSIVE SumHours(_)
SumHours(d) ==
    IF DOMAIN d = {} THEN << 0, 1 >>
    ELSE LET k == CHOOSE k \in DOMAIN d : TRUE
         IN FloatAdd(d[k], SumHours([ x \in DOMAIN d \ {k} |-> d[x] ]))

\* the entries with a non-negative duration
Finished(entries) == {i \in DOMAIN entries : entries[i].duration >= 0}

C24_LatestStateStored ==
    (nops > 0 /\ \A w \in SaveWorkers : saves[w] = Idle)
       => WholeSaveOf(disk, to_snapshot(tasks, projects, tags))

\* C25: a step of a GitHub or Toggl fetch leaves the tasks, projects and tags
\* maps and the other service's fields as they are; when the fetch ends with
\* an exception, the service's error is the exception's message, its loading
\* flag is cleared and its stored lists are the ones it had.
C25_FetchChangesOnlyItsService ==
    [][ \A f \in FetchWorkers :
          fetches'[f] # fetches[f] =>
            /\ tasks' = tasks /\ projects' = projects /\ tags' = tags
            /\ fetches'[f].service = "github" => toggl' = toggl
            /\ fetches'[f].service = "toggl" => github' = github
            /\ (fetches[f].pc = 1 /\ fetches'[f].raised # NoneVal) =>
                 /\ fetches'[f].pc = 0
                 /\ nav' = nav
                 /\ fetches'[f].service = "github" =>
                      github' = [ github EXCEPT !.error = fetches'[f].raised,
                                                !.loading = FALSE ]
                 /\ fetches'[f].service = "toggl" =>
                      toggl' = [ toggl EXCEPT !.error = fetches'[f].raised,
                                              !.loading = FALSE ] ]_vars

\* a GitHub fetch has failed after an earlier one had stored its lists, with
\* tasks in the state
C25_Witness ==
    /\ tasks # <<>>
    /\ github.assigned_issues # <<>>
    /\ \E f \in FetchWorkers :
          /\ fetches[f].pc = 0
          /\ "raised" \in DOMAIN fetches[f]
          /\ fetches[f].service = "github"
          /\ fetches[f].raised = github.error
          /\ github.error \in ErrorMessages

\* a fetch of the service is in flight
InFlight(service) ==
    \E f \in FetchWorkers : fetches[f].pc = 1 /\ fetches[f].service = service

\* the fetch of the service that was started last has ended without an
\* exception
LastFetchStored(service) ==
    \E f \in FetchWorkers :
        /\ fetches[f].pc = 0
        /\ "request" \in DOMAIN fetches[f]
        /\ fetches[f].service = service
        /\ fetches[f].request = requests[service]
        /\ fetches[f].raised = NoneVal

\* C29 (as claimed): a service's loading flag is false only when no fetch of
\* that service is in flight, and once all its fetches have finished the
\* stored result is the result of the fetch that was started last.
C29_OverlappingFetches ==
    /\ ~github.loading => ~InFlight("github")
    /\ ~toggl.loading => ~InFlight("toggl")
    /\ (~InFlight("github") /\ LastFetchStored("github")) =>
          github.assigned_issues = GitHubResponse(requests.github).assigned_issues
    /\ (~InFlight("toggl") /\ LastFetchStored("toggl")) =>
          toggl.entries = TogglResponse(requests.toggl)

\* the second half of C29 alone
C29_LastStartedWins ==
    (~InFlight("github") /\ LastFetchStored("github")) =>
        github.assigned_issues = GitHubResponse(requests.github).assigned_issues

\* what the last of set_view, view_project and view_tag left
NavAfterCall ==
    /\ ~(nav.viewing_project_id # NoneVal /\ nav.viewing_tag_id # NoneVal)
    /\ call.fn = "view_project" =>
          nav.current_view = "project" /\ nav.viewing_project_id = call.project_id
    /\ call.fn = "view_tag" =>
          nav.current_view = "tag" /\ nav.viewing_tag_id = call.tag_id
    /\ call.fn = "set_view" =>
          /\ nav.current_view = call.view
          /\ nav.viewing_project_id = NoneVal
          /\ nav.viewing_tag_id = NoneVal
          /\ nav.search_query = NoneVal

\* C30: after any sequence of set_view, view_project and view_tag the project
\* and the tag being viewed are never both set; view_project(p) leaves the
\* PROJECT view with viewing_project_id = p, view_tag(t) the TAG view with
\* viewing_tag_id = t, set_view(v) clears both ids and the search query; none
\* of the three changes the tasks, projects or tags maps.
C30_ViewSwitches ==
    [][ /\ NavAfterCall'
        /\ (nav' # nav \/ call' # call) =>
              tasks' = tasks /\ projects' = projects /\ tags' = tags ]_vars

\* view_project on an AppState that holds tasks, the search query still set
C30_Witness ==
    /\ call.fn = "view_project"
    /\ nav.viewing_project_id = "p2"
    /\ nav.search_query = "a"
    /\ tasks # <<>>
    /\ tags # <<>>

\* the text is empty or consists of spaces and tabs only
Blank(text) == \A i \in DOMAIN Chars(text) : Chars(text)[i] \in {9, 32}

\* the entity maps and the service and view fields of AppState
AppStateFields == << tasks, projects, tags, github, toggl, nav >>

\* C26: saving the task modal or the project modal with an empty or
\* whitespace-only title or name does not dismiss the modal, creates or
\* updates no task or project, starts no save and leaves AppState unchanged;
\* cancelling a modal leaves AppState unchanged.
C26_BlankTitleRejected ==
    [][ /\ (call' # call /\ call'.fn \in {"_save_task", "_save_project"}
               /\ Blank(call'.value)) =>
              /\ modal' = modal
              /\ modal # NoModal
              /\ saves' = saves
              /\ AppStateFields' = AppStateFields
        /\ (call' # call /\ call'.fn = "action_cancel") =>
              AppStateFields' = AppStateFields /\ saves' = saves ]_vars

\* a whitespace-only title was saved on the edit modal of an existing task:
\* the modal is still open and the task has its title
C26_Witness ==
    /\ call.fn = "_save_task"
    /\ call.value = "  "
    /\ modal # NoModal
    /\ modal.screen = "task"
    /\ modal.task # <<>>
    /\ modal.value = "  "
    /\ \E i \in DOMAIN tasks : tasks[i].title = "b"

\* C27 (as claimed): when the app has loaded a snapshot S at start and has
\* saved its state, the saved snapshot holds every section and reminder of S,
\* and a later get_snapshot returns them.
C27_SectionsAndRemindersCarried ==
    (/\ loaded # NoLoad
     /\ loaded.raised = ""
     /\ last_saved.saved
     /\ last_saved.raised = "") =>
        LET later == get_snapshot(disk).snap
        IN /\ Range(loaded.snap.sections) \subseteq Range(last_saved.snap.sections)
           /\ Range(loaded.snap.reminders) \subseteq Range(last_saved.snap.reminders)
           /\ Range(loaded.snap.sections) \subseteq Range(later.sections)
           /\ Range(loaded.snap.reminders) \subseteq Range(later.reminders)

\* C28 (as claimed): every task that is not deleted and whose status is inbox
\* or active is in the output of at least one of get_inbox_tasks,
\* get_today_tasks, get_upcoming_tasks and get_anytime_tasks, whatever its due
\* date and start date.
C28_OpenTaskIsListed ==
    call.fn = "open_views" =>
        \A t \in Range(call.tasks) :
            (~t.deleted /\ t.status \in {"inbox", "active"}) =>
                t \in Range(call.inbox) \cup Range(call.today)
                        \cup Range(call.upcoming) \cup Range(call.anytime)

====
